---- MODULE Spec2Model ----
(***************************************************************************)
(* Capacitor-bank unbalance models (IEEE C37.99): the five topology        *)
(* models, their sweeps, the topology validators and the application       *)
(* pipeline, as state machines.                                            *)
(*                                                                         *)
(* Numbers.  The program computes in binary floating point and rounds      *)
(* every table cell to 6 decimals.  Here a number is an exact rational     *)
(* <<n, d>> in lowest terms with d > 0; <<0, 0>> stands for "the           *)
(* computation raised" and is absorbing, so a row holding it is a row      *)
(* whose computation raised ZeroDivisionError at the first zero            *)
(* denominator.  A table cell, round(x, 6), is kept as the integer number  *)
(* of millionths nearest to the exact value (ties to even, as Python's     *)
(* round): the cell 1.0 is 1000000.  Where the exact value lies exactly    *)
(* halfway between two cells the float computation may round either way;   *)
(* such a cell can differ from the program's by one millionth.             *)
(*                                                                         *)
(* Specifications.  SpecModel: a model object is constructed and its       *)
(* calcular is called once.  SpecCalls: the same, then a second call of    *)
(* calcular, with exportar or salvar_excel called at any point after       *)
(* construction.  SpecValid: a validator is applied to a                   *)
(* topology key and a nameplate mapping.  SpecSweep: validate_inputs is    *)
(* applied to a nameplate and, when it accepts, the model is built and     *)
(* swept.  SpecConv: calcular_nominais_celula, then converter_unidades on  *)
(* a per-unit table.  Spec: the application script, run_main_part_1        *)
(* followed by a compute function, called by TopologyConfig.compute or     *)
(* with the caller's own f_values.                                         *)
(***************************************************************************)
EXTENDS Integers, Sequences, FiniteSets, TLC

VARIABLES
    pc,         \* position of the running script / last operation applied
    topologia,  \* the topology key selected
    dados,      \* the nameplate mapping (dados_nominais_banco)
    model,      \* the model instance: its constructor parameters and its df
    ret,        \* what the last call returned or raised
    tela,       \* messages shown to the user (st.error / st.warning)
    exportado   \* what the exporters were handed (LaTeX and Excel tables)

vars == <<pc, topologia, dados, model, ret, tela, exportado>>

-----------------------------------------------------------------------------
(* Bounds of the model *)

MaxS == 3
MaxPt == 4
MaxP == 3
MaxN == 4
MaxSu == 2

-----------------------------------------------------------------------------
(* Exact rational arithmetic standing for Python floats *)

Abs(x) == IF x < 0 THEN -x ELSE x

RECURSIVE GCD(_, _)
GCD(a, b) == IF b = 0 THEN a ELSE GCD(b, a % b)

Raised == <<0, 0>>

IsRaised(q) == q[2] = 0

Rat(n, d) ==
    IF d = 0 THEN Raised
    ELSE LET s == IF d < 0 THEN -1 ELSE 1
             g == GCD(Abs(n), Abs(d))
         IN  <<(s * n) \div g, (s * d) \div g>>

RInt(n) == <<n, 1>>

RAdd(a, b) ==
    IF IsRaised(a) \/ IsRaised(b) THEN Raised
    ELSE Rat(a[1] * b[2] + b[1] * a[2], a[2] * b[2])

RNeg(a) == IF IsRaised(a) THEN Raised ELSE <<-a[1], a[2]>>

RSub(a, b) == RAdd(a, RNeg(b))

RMul(a, b) ==
    IF IsRaised(a) \/ IsRaised(b) THEN Raised
    ELSE Rat(a[1] * b[1], a[2] * b[2])

\* Python's true division: ZeroDivisionError on a zero divisor.
RDiv(a, b) ==
    IF IsRaised(a) \/ IsRaised(b) \/ b[1] = 0 THEN Raised
    ELSE Rat(a[1] * b[2], a[2] * b[1])

\* _safe_div(num, den, name): raises when abs(den) < 1e-12.  Every nonzero
\* denominator the bounded parameters can produce is far above 1e-12.
SafeDiv(num, den) == RDiv(num, den)

Thousand == 1000

Millionth == 1000000

\* round(x, 6) in millionths, ties to even; the six decimals are produced
\* three at a time by long division.
Round6(q) ==
    LET n   == Abs(q[1])
        d   == q[2]
        r1  == n % d
        r2  == (r1 * Thousand) % d
        r3  == (r2 * Thousand) % d
        val == (n \div d) * Millionth + ((r1 * Thousand) \div d) * Thousand
               + ((r2 * Thousand) \div d)
        up  == IF 2 * r3 > d THEN 1
               ELSE IF 2 * r3 = d /\ val % 2 = 1 THEN 1 ELSE 0
    IN  IF q[1] < 0 THEN -(val + up) ELSE val + up

\* The cell holding the number 1.0, and the cell of a rational.
Cell1 == Millionth

One == RInt(1)

Zero == RInt(0)

\* range(a, b) as a sequence
Range(a, b) == [i \in 1..(IF b > a THEN b - a ELSE 0) |-> a + i - 1]

\* An optional sequence argument: None or a sequence.
NoneArg == [given |-> FALSE, seq |-> <<>>]

SeqArg(s) == [given |-> TRUE, seq |-> s]

\* A pass of the loop of calcular raised: one of the values it computes met
\* a zero denominator.
RowRaised(c) == \E k \in DOMAIN c \ {"G", "f", "n"} : IsRaised(c[k])

-----------------------------------------------------------------------------
(* Table07DoubleWyeFig34: double wye, internal fuses (yy_internal_fuses.py) *)

T07_validate(S, Pt, Pa, P, N, Su) ==
    ~(\E v \in {S, Pt, Pa, P, N, Su} : v <= 0)

T07_Cu(m, Ci) ==
    SafeDiv(RMul(RInt(m.Su), Ci), RAdd(RMul(Ci, RInt(m.Su - 1)), One))

T07_Cg(m, Cu) == SafeDiv(RAdd(RInt(m.P - 1), Cu), RInt(m.P))

\* Mutant: the series connection of the S groups is left out.
T07_Cs_oneGroup(m, Cg) == Cg

T07_Cs(m, Cg) ==
    SafeDiv(RMul(RInt(m.S), Cg), RAdd(RMul(Cg, RInt(m.S - 1)), One))

\* Mutant: the phase capacitance is referred to Pa instead of Pt.
T07_Cp_perPa(m, Cs) ==
    SafeDiv(RAdd(RMul(Cs, RInt(m.P)), RInt(m.Pt - m.P)), RInt(m.Pa))

T07_Cp(m, Cs) ==
    SafeDiv(RAdd(RMul(Cs, RInt(m.P)), RInt(m.Pt - m.P)), RInt(m.Pt))

\* Mutant: the grounding factor G is dropped.
T07_Vng_noG(m, Cp, G) == RSub(SafeDiv(RInt(3), RAdd(RInt(2), Cp)), One)

T07_Vng(m, Cp, G) ==
    RMul(RInt(G), RSub(SafeDiv(RInt(3), RAdd(RInt(2), Cp)), One))

\* Mutant: the ratio Cs/Cg is inverted.
T07_Vcu_inverted(m, Vln, Cs, Cg) == SafeDiv(RMul(Vln, Cg), Cs)

T07_Vcu(m, Vln, Cs, Cg) == SafeDiv(RMul(Vln, Cs), Cg)

\* Mutant: the factor (Pt - Pa) is dropped.
T07_In_noDifference(m, Vng, G) ==
    SafeDiv(RMul(RMul(RInt(3), Vng), RInt(G)), RInt(m.Pt))

T07_In(m, Vng, G) ==
    SafeDiv(RMul(RMul(RMul(RInt(3), Vng), RInt(G)), RInt(m.Pt - m.Pa)),
            RInt(m.Pt))

\* One pass of the loop of calcular: the values computed for fault index f
\* (_Ci, _Vg, _Vln, _Ve, _Iu, _Ist, _Iph and _Ig are written in place).
T07_Chain(m, G, f) ==
    LET Ci  == SafeDiv(RInt(m.N - f), RInt(m.N))
        Vg  == SafeDiv(RInt(m.Su * m.N),
                       RInt((m.Su - 1) * (m.N - f) + m.N))
        Cu  == T07_Cu(m, Ci)
        Cg  == T07_Cg(m, Cu)
        Cs  == T07_Cs(m, Cg)
        Cp  == T07_Cp(m, Cs)
        Vng == T07_Vng(m, Cp, G)
        Vln == RAdd(One, Vng)
        Vcu == T07_Vcu(m, Vln, Cs, Cg)
        Ve  == RMul(Vcu, Vg)
        Iu  == RMul(Vcu, Cu)
        Ist == RMul(Cs, Vln)
        Iph == RMul(Cp, Vln)
        Ig  == RMul(RInt(1 - G), RSub(One, Iph))
        In  == T07_In(m, Vng, G)
    IN  [G |-> G, f |-> f,
         Ci |-> Ci, Vg |-> Vg, Cu |-> Cu,
         Cg |-> Cg, Cs |-> Cs, Cp |-> Cp,
         Vng |-> Vng, Vln |-> Vln, Vcu |-> Vcu,
         Ve |-> Ve, Iu |-> Iu, Ist |-> Ist,
         Iph |-> Iph, Ig |-> Ig, In |-> In]

\* The row appended to the table: every computed value rounded to 6 decimals.
T07_Row(c) ==
    [G |-> c.G, f |-> c.f, Ci |-> Round6(c.Ci), Vg |-> Round6(c.Vg),
     Cu |-> Round6(c.Cu), Cg |-> Round6(c.Cg), Cs |-> Round6(c.Cs),
     Cp |-> Round6(c.Cp), Vng |-> Round6(c.Vng), Vln |-> Round6(c.Vln),
     Vcu |-> Round6(c.Vcu), Ve |-> Round6(c.Ve), Iu |-> Round6(c.Iu),
     Ist |-> Round6(c.Ist), Iph |-> Round6(c.Iph), Ig |-> Round6(c.Ig),
     In |-> Round6(c.In)]

T07_DefaultDomain(m) == Range(0, m.N)

\* calcular(G, f_values): what it raises, and the df the instance holds after.
T07_calcular(m, G, f_values) ==
    IF G \notin {0, 1} THEN [exc |-> "ValueError", df |-> m.df]
    ELSE LET seq  == IF f_values.given THEN f_values.seq
                     ELSE T07_DefaultDomain(m)
             ch   == [i \in 1..Len(seq) |-> T07_Chain(m, G, seq[i])]
         IN  IF \E i \in 1..Len(seq) : RowRaised(ch[i])
             THEN [exc |-> "ZeroDivisionError", df |-> m.df]
             ELSE [exc |-> "none", df |-> [i \in 1..Len(seq) |-> T07_Row(ch[i])]]

-----------------------------------------------------------------------------
(* Table07SingleWyeInternalFuses: single wye, internal fuses
   (y_internal_fuses.py) *)

T07y_validate(S, Pt, Pa, P, N, Su) ==
    /\ ~(\E v \in {S, Pt, Pa, P, N, Su} : v <= 0)
    /\ Pa = Pt

T07y_Chain(m, G, f) ==
    LET Ci  == SafeDiv(RInt(m.N - f), RInt(m.N))
        Vg  == SafeDiv(RInt(m.Su * m.N), RInt((m.Su - 1) * (m.N - f) + m.N))
        Cu  ==
            SafeDiv(RMul(RInt(m.Su), Ci), RAdd(RMul(Ci, RInt(m.Su - 1)), One))
        Cg  == SafeDiv(RAdd(RInt(m.P - 1), Cu), RInt(m.P))
        Cs  ==
            SafeDiv(RMul(RInt(m.S), Cg), RAdd(RMul(Cg, RInt(m.S - 1)), One))
        Cp  ==
            SafeDiv(RAdd(RMul(Cs, RInt(m.P)), RInt(m.Pt - m.P)), RInt(m.Pt))
        Vng ==
            RMul(RInt(G), RSub(SafeDiv(RInt(3), RAdd(RInt(2), Cp)), One))
        Vln == RAdd(One, Vng)
        Vcu == SafeDiv(RMul(Vln, Cs), Cg)
        Ve  == RMul(Vcu, Vg)
        Iu  == RMul(Vcu, Cu)
        Ist == RMul(Cs, Vln)
        Iph == RMul(Cp, Vln)
        Ig  == RMul(RInt(1 - G), RSub(One, Iph))
        In  == Zero
    IN  [G |-> G, f |-> f,
         Ci |-> Ci, Vg |-> Vg, Cu |-> Cu,
         Cg |-> Cg, Cs |-> Cs, Cp |-> Cp,
         Vng |-> Vng, Vln |-> Vln, Vcu |-> Vcu,
         Ve |-> Ve, Iu |-> Iu, Ist |-> Ist,
         Iph |-> Iph, Ig |-> Ig, In |-> In]

\* The row appended to the table: every computed value rounded to 6 decimals.
T07y_Row(c) ==
    [G |-> c.G, f |-> c.f, Ci |-> Round6(c.Ci), Vg |-> Round6(c.Vg),
     Cu |-> Round6(c.Cu), Cg |-> Round6(c.Cg), Cs |-> Round6(c.Cs),
     Cp |-> Round6(c.Cp), Vng |-> Round6(c.Vng), Vln |-> Round6(c.Vln),
     Vcu |-> Round6(c.Vcu), Ve |-> Round6(c.Ve), Iu |-> Round6(c.Iu),
     Ist |-> Round6(c.Ist), Iph |-> Round6(c.Iph), Ig |-> Round6(c.Ig),
     In |-> Round6(c.In)]

T07y_DefaultDomain(m) == Range(0, m.N)

T07y_calcular(m, G, f_values) ==
    IF G \notin {0, 1} THEN [exc |-> "ValueError", df |-> m.df]
    ELSE LET seq  == IF f_values.given THEN f_values.seq
                     ELSE T07y_DefaultDomain(m)
             ch   == [i \in 1..Len(seq) |-> T07y_Chain(m, G, seq[i])]
         IN  IF \E i \in 1..Len(seq) : RowRaised(ch[i])
             THEN [exc |-> "ZeroDivisionError", df |-> m.df]
             ELSE [exc |-> "none", df |-> [i \in 1..Len(seq) |-> T07y_Row(ch[i])]]

-----------------------------------------------------------------------------
(* Table03DoubleWyeFig29: double wye, external fuses (yy_external_fuses.py).
   Cu_fixed is left at its default 1.0. *)

T03_validate(S, Pt, Pa) == ~(\E v \in {S, Pt, Pa} : v <= 0)

T03_InRange(m, n) == ~(n < 0 \/ n > m.Pa)

T03_Chain(m, G, n) ==
    LET Cg  == SafeDiv(RInt(m.Pa - n), RInt(m.Pa))
        Cs  ==
            SafeDiv(RMul(RInt(m.S), Cg), RAdd(RMul(Cg, RInt(m.S - 1)), One))
        Cp  ==
            SafeDiv(RAdd(RMul(Cs, RInt(m.Pa)), RInt(m.Pt - m.Pa)), RInt(m.Pt))
        Vng ==
            RMul(RInt(G), RSub(SafeDiv(RInt(3), RAdd(RInt(2), Cp)), One))
        Vln == RAdd(One, Vng)
        Vcu ==
            IF IsRaised(Cg) THEN Raised
            ELSE IF Cg[1] = 0 THEN RMul(Vln, RInt(m.S))
            ELSE SafeDiv(RMul(Vln, Cs), Cg)
        Iu  == RMul(Vcu, m.Cu_fixed)
        Iy  == RMul(Cs, Vln)
        Iph == RMul(Cp, Vln)
        Ig  == RMul(RInt(1 - G), RSub(One, Iph))
        In  ==
            SafeDiv(RMul(RMul(RMul(RInt(3), Vng), RInt(G)), RInt(m.Pt - m.Pa)),
                    RInt(m.Pt))
    IN  [G |-> G, n |-> n, Cu_fixed |-> m.Cu_fixed,
         Cg |-> Cg, Cs |-> Cs, Cp |-> Cp,
         Vng |-> Vng, Vln |-> Vln, Vcu |-> Vcu,
         Iu |-> Iu, Iy |-> Iy, Iph |-> Iph,
         Ig |-> Ig, In |-> In]

\* The row appended to the table: every computed value rounded to 6 decimals.
T03_Row(c) ==
    [G |-> c.G, n |-> c.n, Cu_fixed |-> Round6(c.Cu_fixed), Cg |-> Round6(c.Cg),
     Cs |-> Round6(c.Cs), Cp |-> Round6(c.Cp), Vng |-> Round6(c.Vng),
     Vln |-> Round6(c.Vln), Vcu |-> Round6(c.Vcu), Iu |-> Round6(c.Iu),
     Iy |-> Round6(c.Iy), Iph |-> Round6(c.Iph), Ig |-> Round6(c.Ig),
     In |-> Round6(c.In)]

T03_DefaultDomain(m) == Range(0, m.Pa - 2)

\* The loop stops at the first index that is out of range (ValueError) or
\* whose row meets a zero denominator (ZeroDivisionError).
T03_calcular(m, G, n_values) ==
    IF G \notin {0, 1} THEN [exc |-> "ValueError", df |-> m.df]
    ELSE LET seq  == IF n_values.given THEN n_values.seq
                     ELSE T03_DefaultDomain(m)
             ch   == [i \in 1..Len(seq) |-> T03_Chain(m, G, seq[i])]
             bad(i) == ~T03_InRange(m, seq[i]) \/ RowRaised(ch[i])
         IN  IF \E i \in 1..Len(seq) : bad(i)
             THEN LET i == CHOOSE j \in 1..Len(seq) :
                               bad(j) /\ \A k \in 1..(j - 1) : ~bad(k)
                  IN  [exc |-> IF ~T03_InRange(m, seq[i]) THEN "ValueError"
                               ELSE "ZeroDivisionError",
                       df |-> m.df]
             ELSE [exc |-> "none",
                   df |-> [i \in 1..Len(seq) |-> T03_Row(ch[i])]]

-----------------------------------------------------------------------------
(* Table02SingleWye: single wye, external fuses (y_external_fuses.py).
   Cu_fixed is left at its default 1.0. *)

T02_validate(S, Pt) == ~(S <= 0 \/ Pt <= 0)

T02_InRange(m, n) == ~(n < 0 \/ n > m.Pt)

T02_Chain(m, G, n) ==
    LET Cg  == SafeDiv(RInt(m.Pt - n), RInt(m.Pt))
        Cp  ==
            SafeDiv(RMul(RInt(m.S), Cg), RAdd(RMul(Cg, RInt(m.S - 1)), One))
        Vng ==
            RMul(RInt(G), RSub(SafeDiv(RInt(3), RAdd(RInt(2), Cp)), One))
        Vln == RAdd(One, Vng)
        Vcu ==
            IF IsRaised(Cg) THEN Raised
            ELSE IF Cg[1] = 0 THEN RMul(Vln, RInt(m.S))
            ELSE SafeDiv(RMul(Vln, Cp), Cg)
        Iu  == RMul(Vcu, m.Cu_fixed)
        Iph == RMul(Cp, Vln)
        Ig  == RMul(RInt(1 - G), RSub(One, Iph))
    IN  [G |-> G, n |-> n, Cu_fixed |-> m.Cu_fixed,
         Cg |-> Cg, Cp |-> Cp,
         Vng |-> Vng, Vln |-> Vln, Vcu |-> Vcu,
         Iu |-> Iu, Iph |-> Iph, Ig |-> Ig]

\* The row appended to the table: every computed value rounded to 6 decimals.
T02_Row(c) ==
    [G |-> c.G, n |-> c.n, Cu_fixed |-> Round6(c.Cu_fixed),
     Cg |-> Round6(c.Cg), Cp |-> Round6(c.Cp), Vng |-> Round6(c.Vng),
     Vln |-> Round6(c.Vln), Vcu |-> Round6(c.Vcu), Iu |-> Round6(c.Iu),
     Iph |-> Round6(c.Iph), Ig |-> Round6(c.Ig)]

T02_DefaultDomain(m) == Range(0, m.Pt - 2)

T02_calcular(m, G, n_values) ==
    IF G \notin {0, 1} THEN [exc |-> "ValueError", df |-> m.df]
    ELSE LET seq  == IF n_values.given THEN n_values.seq
                     ELSE T02_DefaultDomain(m)
             ch   == [i \in 1..Len(seq) |-> T02_Chain(m, G, seq[i])]
             bad(i) == ~T02_InRange(m, seq[i]) \/ RowRaised(ch[i])
         IN  IF \E i \in 1..Len(seq) : bad(i)
             THEN LET i == CHOOSE j \in 1..Len(seq) :
                               bad(j) /\ \A k \in 1..(j - 1) : ~bad(k)
                  IN  [exc |-> IF ~T02_InRange(m, seq[i]) THEN "ValueError"
                               ELSE "ZeroDivisionError",
                       df |-> m.df]
             ELSE [exc |-> "none",
                   df |-> [i \in 1..Len(seq) |-> T02_Row(ch[i])]]

-----------------------------------------------------------------------------
(* Table06HBridgeMinimal: H-bridge, external fuses
   (h_bridge_external_fuses.py) *)

\* The sentinel index "SU" of a sweep, written as an integer that is no
\* fault index, and the marker "SC" its row holds in place of numbers.
SU == -1000

SC == "SC"

\* Mutant: no entry is taken for the sentinel.
T06_IsSentinel_never(n) == FALSE

\* if n == "SU"
T06_IsSentinel(n) == n = SU

T06_validate(S, St, Pt, Pa) ==
    /\ ~(\E v \in {S, St, Pt, Pa} : v <= 0)
    /\ ~(S <= St)

\* _safe_div(num, den, name): raises when den == 0.
T06_safe_div(num, den) == RDiv(num, den)

T06_Chn(m, n) ==
    LET num   == RInt((m.Pa - n) * m.Pa)
        den   == RInt((m.Pa - n) * (m.St - 1) + m.Pa)
        term1 == T06_safe_div(num, den)
        term2 == T06_safe_div(RInt(m.Pt - m.Pa), RInt(m.St))
    IN  RAdd(term1, term2)

T06_Cp(m, Chn) ==
    T06_safe_div(RMul(Chn, RInt(m.Pt)),
                 RAdd(RMul(Chn, RInt(m.S - m.St)), RInt(m.Pt)))

T06_Vln(m, Cp, Cp0, G) ==
    LET ratio == T06_safe_div(Cp, Cp0)
        inner == T06_safe_div(RInt(3), RAdd(RInt(2), ratio))
    IN  RAdd(One, RMul(RInt(G), RSub(inner, One)))

T06_Ih(m, Vln, Vhn) ==
    LET termA == RSub(RDiv(RInt(m.St), RInt(m.S)), Vhn)
        termB == RAdd(T06_safe_div(One, RInt(m.S - m.St)),
                      T06_safe_div(One, RInt(m.St)))
        termC == T06_safe_div(RInt(m.S * (m.Pt - m.Pa)), RInt(m.Pt))
    IN  RMul(RMul(RMul(RNeg(Vln), termA), termB), termC)

\* Mutant: St in place of St - 1 in the denominator.
T06_Vcu_offByOne(m, Vln, Vhn, n) ==
    T06_safe_div(RMul(RMul(Vln, Vhn), RInt(m.Pa * m.S)),
                 RInt(m.Pa + m.St * (m.Pa - n)))

T06_Vcu(m, Vln, Vhn, n) ==
    T06_safe_div(RMul(RMul(Vln, Vhn), RInt(m.Pa * m.S)),
                 RInt(m.Pa + (m.St - 1) * (m.Pa - n)))

T06_InRange(m, n) == ~(n < 0 \/ n > m.Pa)

\* One pass of the loop of calcular: the values computed for the entry n
\* (_Vhn and _Iu are written in place).
T06_Chain(m, G, n) ==
    LET Chn0 == T06_Chn(m, 0)
        Cp0  == T06_Cp(m, Chn0)
    IN  IF T06_IsSentinel(n)
        THEN LET Vln0 == T06_Vln(m, Cp0, Cp0, G)
                 Vhn0 == T06_safe_div(Cp0, Chn0)
                 Ih0  == T06_Ih(m, Vln0, Vhn0)
             IN  [n |-> SU, Chn |-> Chn0, Cp |-> Cp0, Cp0 |-> Cp0,
                  Vln |-> Vln0, Vhn |-> Vhn0, Ih |-> Ih0,
                  Vcu |-> Zero, Iu |-> Zero]
        ELSE LET Chn == T06_Chn(m, n)
                 Cp  == T06_Cp(m, Chn)
                 Vln == T06_Vln(m, Cp, Cp0, G)
                 Vhn == T06_safe_div(Cp, Chn)
                 Ih  == T06_Ih(m, Vln, Vhn)
                 Vcu == T06_Vcu(m, Vln, Vhn, n)
                 Iu  == RMul(One, Vcu)
             IN  [n |-> n, Chn |-> Chn, Cp |-> Cp, Cp0 |-> Cp0,
                  Vln |-> Vln, Vhn |-> Vhn, Ih |-> Ih,
                  Vcu |-> Vcu, Iu |-> Iu]

\* The row appended to the table.  The columns "Cu(=1)" and "Iu(=1*Vcu)" are
\* the fields Cu1 and Iu; the sentinel row holds "SC" in Vcu and Iu.
T06_Row(c) ==
    [n |-> c.n, Cu1 |-> Cell1, Chn |-> Round6(c.Chn), Cp |-> Round6(c.Cp),
     Cp0 |-> Round6(c.Cp0), Vln |-> Round6(c.Vln), Vhn |-> Round6(c.Vhn),
     Ih |-> Round6(c.Ih),
     Vcu |-> IF T06_IsSentinel(c.n) THEN SC ELSE Round6(c.Vcu),
     Iu |-> IF T06_IsSentinel(c.n) THEN SC ELSE Round6(c.Iu)]

\* calcular(G, n_values=None) has no default domain: iterating None raises
\* TypeError, after the reference Cp(0) has been computed.
T06_calcular(m, G, n_values) ==
    IF G \notin {0, 1} THEN [exc |-> "ValueError", df |-> m.df]
    ELSE IF IsRaised(T06_Cp(m, T06_Chn(m, 0)))
    THEN [exc |-> "ZeroDivisionError", df |-> m.df]
    ELSE IF ~n_values.given THEN [exc |-> "TypeError", df |-> m.df]
    ELSE LET seq  == n_values.seq
             ch   == [i \in 1..Len(seq) |-> T06_Chain(m, G, seq[i])]
             bad(i) == (~T06_IsSentinel(seq[i]) /\ ~T06_InRange(m, seq[i]))
                       \/ RowRaised(ch[i])
         IN  IF \E i \in 1..Len(seq) : bad(i)
             THEN LET i == CHOOSE j \in 1..Len(seq) :
                               bad(j) /\ \A k \in 1..(j - 1) : ~bad(k)
                  IN  [exc |-> IF seq[i] # SU /\ ~T06_InRange(m, seq[i])
                               THEN "ValueError" ELSE "ZeroDivisionError",
                       df |-> m.df]
             ELSE [exc |-> "none",
                   df |-> [i \in 1..Len(seq) |-> T06_Row(ch[i])]]

-----------------------------------------------------------------------------
(* Tabela08HBridgeCalculada: H-bridge, internal fuses
   (h_bridge_internal_fuses.py) *)

T08_check_parameters(S, St, Pt, Pa, P, N, Su) ==
    /\ ~(S <= 0 \/ St <= 0 \/ Pt <= 0 \/ P <= 0 \/ N <= 0 \/ Su <= 0)
    /\ ~(S = St)

T08_Cu(m, f) ==
    RDiv(RInt(m.Su * (m.N - f)), RInt((m.N - f) * (m.Su - 1) + m.N))

T08_Chn(m, Cu) ==
    LET a == RAdd(Cu, RInt(m.P - 1))
    IN  RAdd(RDiv(RMul(a, RInt(m.P)),
                  RAdd(RMul(a, RInt(m.St - 1)), RInt(m.P))),
             RDiv(RInt(m.Pt - m.P), RInt(m.St)))

T08_Cp(m, Chn) ==
    RDiv(RMul(Chn, RInt(m.Pt)), RAdd(RMul(Chn, RInt(m.S - m.St)), RInt(m.Pt)))

T08_Chain(m, G, f) ==
    LET Cu0  == T08_Cu(m, 0)
        Chn0 == T08_Chn(m, Cu0)
        Cp0  == T08_Cp(m, Chn0)
        Cu   == T08_Cu(m, f)
        Chn  == T08_Chn(m, Cu)
        Cp   == T08_Cp(m, Chn)
        Vln  ==
            RAdd(One,
                 RMul(RInt(G),
                      RSub(RDiv(RInt(3), RAdd(RInt(2), RDiv(Cp, Cp0))), One)))
        Vh   == RDiv(Cp, Chn)
        Ih   ==
            RMul(RMul(RMul(RNeg(Vln), RSub(RDiv(RInt(m.St), RInt(m.S)), Vh)),
                      RAdd(RDiv(One, RInt(m.S - m.St)), RDiv(One, RInt(m.St)))),
                 RDiv(RInt(m.S * (m.Pt - m.Pa)), RInt(m.Pt)))
        Vcu  ==
            RDiv(RMul(RMul(Vln, Vh), RInt(m.P * m.S)),
                 RAdd(RInt(m.P), RMul(RInt(m.St - 1), RAdd(Cu, RInt(m.P - 1)))))
        Ve   ==
            RDiv(RMul(Vcu, RInt(m.Su * m.N)), RInt(m.Su * (m.N - f) + f))
        Iu   == RMul(Vcu, Cu)
    IN  [G |-> G, f |-> f, Cu |-> Cu, Chn |-> Chn,
         Cp |-> Cp, Cp0 |-> Cp0, Vln |-> Vln,
         Vh |-> Vh, Ih |-> Ih, Vcu |-> Vcu,
         Ve |-> Ve, Iu |-> Iu]

\* The row appended to the table: every computed value rounded to 6 decimals.
T08_Row(c) ==
    [G |-> c.G, f |-> c.f, Cu |-> Round6(c.Cu), Chn |-> Round6(c.Chn),
     Cp |-> Round6(c.Cp), Cp0 |-> Round6(c.Cp0), Vln |-> Round6(c.Vln),
     Vh |-> Round6(c.Vh), Ih |-> Round6(c.Ih), Vcu |-> Round6(c.Vcu),
     Ve |-> Round6(c.Ve), Iu |-> Round6(c.Iu)]

T08_DefaultDomain(m) == Range(0, m.N)

\* calcular(G) takes no index sequence: it always sweeps arange(N).
T08_calcular(m, G) ==
    IF G \notin {0, 1} THEN [exc |-> "ValueError", df |-> m.df]
    ELSE IF IsRaised(T08_Cp(m, T08_Chn(m, T08_Cu(m, 0))))
    THEN [exc |-> "ZeroDivisionError", df |-> m.df]
    ELSE LET seq  == T08_DefaultDomain(m)
             ch   == [i \in 1..Len(seq) |-> T08_Chain(m, G, seq[i])]
         IN  IF \E i \in 1..Len(seq) : RowRaised(ch[i])
             THEN [exc |-> "ZeroDivisionError", df |-> m.df]
             ELSE [exc |-> "none", df |-> [i \in 1..Len(seq) |-> T08_Row(ch[i])]]

-----------------------------------------------------------------------------
(* The model classes as objects: construction, then two calls of calcular,
   and exportar / salvar_excel *)

NoModel ==
    [cls |-> "none", S |-> 0, St |-> 0, Pt |-> 0, Pa |-> 0, P |-> 0, N |-> 0,
     Su |-> 0, Cu_fixed |-> One, df |-> <<>>]

\* __init__: the fields stored, df = pd.DataFrame().
NewModel(cls, S, St, Pt, Pa, P, N, Su) ==
    [cls |-> cls, S |-> S, St |-> St, Pt |-> Pt, Pa |-> Pa, P |-> P, N |-> N,
     Su |-> Su, Cu_fixed |-> One, df |-> <<>>]

NoCall == [op |-> "none", G |-> 0, arg |-> NoneArg, exc |-> "none"]

GVals == {0, 1}

\* The values a caller passes for G: the two groundings and one other value.
GArgs == GVals \cup {2}

\* The index sequences a caller passes: None, or one index around [0, hi];
\* in a second call None, or the first index above hi.
SweepArgs(hi) ==
    IF pc = "recall" THEN {NoneArg, SeqArg(<<hi + 1>>)}
    ELSE {NoneArg} \cup {SeqArg(<<i>>) : i \in (-1)..(hi + 1)}

InitModel ==
    /\ pc = "new"
    /\ topologia = "none"
    /\ dados = <<>>
    /\ model = NoModel
    /\ ret = NoCall
    /\ tela = <<>>
    /\ exportado = <<>>

\* Constructor call: the instance, or ValueError from its validation.
Constructed(ok, m) ==
    /\ pc' = IF ok THEN "built" ELSE "ctor_raised"
    /\ model' = IF ok THEN m ELSE NoModel
    /\ ret' = [op |-> "init", G |-> 0, arg |-> NoneArg,
               exc |-> IF ok THEN "none" ELSE "ValueError"]
    /\ UNCHANGED <<topologia, dados, tela, exportado>>

ConstructT07 ==
    /\ pc = "new"
    /\ \E S \in 0..MaxS, Pt \in 0..MaxPt, Pa \in 0..MaxPt, P \in 0..MaxP,
       N \in 0..MaxN, Su \in 0..MaxSu :
        Constructed(T07_validate(S, Pt, Pa, P, N, Su),
                    NewModel("T07", S, 0, Pt, Pa, P, N, Su))

ConstructT07y ==
    /\ pc = "new"
    /\ \E S \in 0..MaxS, Pt \in 0..MaxPt, Pa \in 0..MaxPt, P \in 0..MaxP,
       N \in 0..MaxN, Su \in 0..MaxSu :
        Constructed(T07y_validate(S, Pt, Pa, P, N, Su),
                    NewModel("T07y", S, 0, Pt, Pa, P, N, Su))

ConstructT03 ==
    /\ pc = "new"
    /\ \E S \in 0..MaxS, Pt \in 0..MaxPt, Pa \in 0..MaxPt :
        Constructed(T03_validate(S, Pt, Pa),
                    NewModel("T03", S, 0, Pt, Pa, 0, 0, 0))

ConstructT02 ==
    /\ pc = "new"
    /\ \E S \in 0..MaxS, Pt \in 0..MaxPt :
        Constructed(T02_validate(S, Pt), NewModel("T02", S, 0, Pt, 0, 0, 0, 0))

ConstructT06 ==
    /\ pc = "new"
    /\ \E S \in 0..MaxS, St \in 0..MaxS, Pt \in 0..MaxPt, Pa \in 0..MaxPt :
        Constructed(T06_validate(S, St, Pt, Pa),
                    NewModel("T06", S, St, Pt, Pa, 0, 0, 0))

ConstructT08 ==
    /\ pc = "new"
    /\ \E S \in 0..MaxS, St \in 0..MaxS, Pt \in 0..MaxPt, Pa \in 0..MaxPt,
       P \in 0..MaxP, N \in 0..MaxN, Su \in 0..MaxSu :
        Constructed(T08_check_parameters(S, St, Pt, Pa, P, N, Su),
                    NewModel("T08", S, St, Pt, Pa, P, N, Su))

\* Mutant: a call that raises empties the stored table.
Called_clearing(G, arg, r) ==
    /\ pc' = IF pc = "built" THEN "swept" ELSE "swept_again"
    /\ model' = [model EXCEPT !.df = IF r.exc = "none" THEN r.df ELSE <<>>]
    /\ ret' = [op |-> "calcular", G |-> G, arg |-> arg, exc |-> r.exc]
    /\ UNCHANGED <<topologia, dados, tela, exportado>>

\* Mutant: the rows of a call are appended to the rows of the calls before.
Called_appending(G, arg, r) ==
    /\ pc' = IF pc = "built" THEN "swept" ELSE "swept_again"
    /\ model' = [model EXCEPT
                    !.df = IF r.exc = "none" THEN model.df \o r.df ELSE model.df]
    /\ ret' = [op |-> "calcular", G |-> G, arg |-> arg, exc |-> r.exc]
    /\ UNCHANGED <<topologia, dados, tela, exportado>>

\* A call of calcular on the instance: df is replaced when it completes.
Called(G, arg, r) ==
    /\ pc' = IF pc = "built" THEN "swept" ELSE "swept_again"
    /\ model' = [model EXCEPT !.df = r.df]
    /\ ret' = [op |-> "calcular", G |-> G, arg |-> arg, exc |-> r.exc]
    /\ UNCHANGED <<topologia, dados, tela, exportado>>

CalcularT07 ==
    /\ pc \in {"built", "recall"} /\ model.cls = "T07"
    /\ \E G \in GArgs, arg \in SweepArgs(model.N) :
           Called(G, arg, T07_calcular(model, G, arg))

CalcularT07y ==
    /\ pc \in {"built", "recall"} /\ model.cls = "T07y"
    /\ \E G \in GArgs, arg \in SweepArgs(model.N) :
           Called(G, arg, T07y_calcular(model, G, arg))

CalcularT03 ==
    /\ pc \in {"built", "recall"} /\ model.cls = "T03"
    /\ \E G \in GArgs, arg \in SweepArgs(model.Pa) :
           Called(G, arg, T03_calcular(model, G, arg))

CalcularT02 ==
    /\ pc \in {"built", "recall"} /\ model.cls = "T02"
    /\ \E G \in GArgs, arg \in SweepArgs(model.Pt) :
           Called(G, arg, T02_calcular(model, G, arg))

\* The sequences handed to Table06HBridgeMinimal.calcular: those of the other
\* models, and sequences that hold the sentinel "SU".
T06_SweepArgs(Pa) ==
    SweepArgs(Pa) \cup {SeqArg(<<SU>>), SeqArg(Range(0, Pa) \o <<SU>>),
                        SeqArg(<<SU, Pa>>)}

CalcularT06 ==
    /\ pc \in {"built", "recall"} /\ model.cls = "T06"
    /\ \E G \in GArgs, arg \in T06_SweepArgs(model.Pa) :
           Called(G, arg, T06_calcular(model, G, arg))

CalcularT08 ==
    /\ pc \in {"built", "recall"} /\ model.cls = "T08"
    /\ \E G \in GArgs : Called(G, NoneArg, T08_calcular(model, G))

\* exportar(formato): ValueError while df is empty, else df serialised.
\* Table07SingleWyeInternalFuses defines neither exportar nor salvar_excel.
exportar(m) ==
    IF m.cls = "T07y" THEN [exc |-> "AttributeError", out |-> <<>>]
    ELSE IF m.df = <<>> THEN [exc |-> "ValueError", out |-> <<>>]
    ELSE [exc |-> "none", out |-> m.df]

\* salvar_excel(filepath): the same test, then df.to_excel.
salvar_excel(m) ==
    IF m.cls = "T07y" THEN [exc |-> "AttributeError", out |-> <<>>]
    ELSE IF m.df = <<>> THEN [exc |-> "ValueError", out |-> <<>>]
    ELSE [exc |-> "none", out |-> m.df]

\* A call of exportar on the instance, before or after calls of calcular.
Exportar ==
    /\ pc \in {"built", "swept", "swept_again"}
    /\ pc' = "exported"
    /\ ret' = [op |-> "exportar", G |-> 0, arg |-> NoneArg,
               exc |-> exportar(model).exc]
    /\ exportado' = IF exportar(model).exc # "none" THEN <<>>
                    ELSE <<[to |-> "exportar", df |-> exportar(model).out]>>
    /\ UNCHANGED <<topologia, dados, model, tela>>

SalvarExcel ==
    /\ pc \in {"built", "swept", "swept_again"}
    /\ pc' = "exported"
    /\ ret' = [op |-> "salvar_excel", G |-> 0, arg |-> NoneArg,
               exc |-> salvar_excel(model).exc]
    /\ exportado' = IF salvar_excel(model).exc # "none" THEN <<>>
                    ELSE <<[to |-> "salvar_excel",
                            df |-> salvar_excel(model).out]>>
    /\ UNCHANGED <<topologia, dados, model, tela>>

\* The caller calls calcular a second time on the instance.
Recalcular ==
    /\ pc = "swept"
    /\ pc' = "recall"
    /\ UNCHANGED <<topologia, dados, model, ret, tela, exportado>>

NextModel ==
    \/ ConstructT07 \/ ConstructT07y \/ ConstructT03
    \/ ConstructT02 \/ ConstructT06 \/ ConstructT08
    \/ CalcularT07 \/ CalcularT07y \/ CalcularT03
    \/ CalcularT02 \/ CalcularT06 \/ CalcularT08

SpecModel == InitModel /\ [][NextModel]_vars

\* Sequences of calls on one instance: calcular, calcular again, and
\* exportar or salvar_excel at any point after construction.
NextCalls == NextModel \/ Recalcular \/ Exportar \/ SalvarExcel

SpecCalls == InitModel /\ [][NextCalls]_vars

-----------------------------------------------------------------------------
(* Nameplate mappings and the validators (validation/validators.py,        *)
(* validation/validacao.py, h_bridge_drawing.py)                            *)

\* A value of the nameplate mapping: the key is absent, holds an integer, or
\* holds a text that int() does not parse.
Absent == [k |-> "absent", v |-> 0]

IntVal(n) == [k |-> "int", v |-> n]

Text == [k |-> "text", v |-> 0]

IsInt(x) == x.k = "int"

\* data.get(key, default)
Get(data, key, default) ==
    IF data[key].k = "absent" THEN IntVal(default) ELSE data[key]

\* errors.append(msg) when cond
Cond(cond, msg) == IF cond THEN <<msg>> ELSE <<>>

ValidationResult(is_valid, errors, warnings) ==
    [exc |-> "none", is_valid |-> is_valid, errors |-> errors,
     warnings |-> warnings]

\* A call that raised instead of returning a ValidationResult.
RaisedResult(exc) ==
    [exc |-> exc, is_valid |-> FALSE, errors |-> <<>>, warnings |-> <<>>]

HBridgeNames == <<"S", "St", "Pt", "Pa", "P">>

MustBeInteger ==
    [S |-> "S must be an integer.", St |-> "St must be an integer.",
     Pt |-> "Pt must be an integer.", Pa |-> "Pa must be an integer.",
     P |-> "P must be an integer."]

MustBeAtLeast1 ==
    [S |-> "S must be >= 1.", St |-> "St must be >= 1.",
     Pt |-> "Pt must be >= 1.", Pa |-> "Pa must be >= 1.",
     P |-> "P must be >= 1."]

MissingRequiredKey ==
    [S |-> "Missing required key 'S'.", St |-> "Missing required key 'St'.",
     Pt |-> "Missing required key 'Pt'.", Pa |-> "Missing required key 'Pa'.",
     P |-> "Missing required key 'P'."]

ChaveAusente ==
    [S |-> "Dados nominais incompletos: chave ausente 'S'.",
     Pt |-> "Dados nominais incompletos: chave ausente 'Pt'.",
     Pa |-> "Dados nominais incompletos: chave ausente 'Pa'.",
     P |-> "Dados nominais incompletos: chave ausente 'P'."]

PtDivPOdd ==
    "Pt//P is odd (right-side split into two equal big groups becomes asymmetric)."

PaEqualsP == "Pa == P: left leg becomes a single ladder block (no split)."

RECURSIVE Concat(_)
Concat(ss) == IF ss = <<>> THEN <<>> ELSE Head(ss) \o Concat(Tail(ss))

\* Mutant: Pa = Pt passes, as in the common rule Pa <= Pt.
PaOutOfRange_offByOne(Pa, Pt) == Pa < 1 \/ Pa > Pt

\* The test behind "Pa must satisfy 1 <= Pa <= Pt-1."
PaOutOfRange(Pa, Pt) == Pa < 1 \/ Pa >= Pt

\* Mutant: the test on Pt % P that the source keeps commented out.
PtDivPIsOdd_remainder(Pt, P) == (Pt % P) # 0

\* The test behind the warning on an odd Pt // P.
PtDivPIsOdd(Pt, P) == ((Pt \div P) % 2) # 0

\* validate_h_bridge_inputs(S, St, Pt, Pa, P); the arguments are values, so
\* that isinstance(val, int) is a test.
validate_h_bridge_inputs(S, St, Pt, Pa, P) ==
    LET vals == [S |-> S, St |-> St, Pt |-> Pt, Pa |-> Pa, P |-> P]
        basic == Concat([i \in 1..Len(HBridgeNames) |->
                     LET name == HBridgeNames[i]
                     IN  IF ~IsInt(vals[name]) THEN <<MustBeInteger[name]>>
                         ELSE Cond(vals[name].v < 1, MustBeAtLeast1[name])])
    IN  IF basic # <<>> THEN ValidationResult(FALSE, basic, <<>>)
        ELSE LET errors ==
                     Cond(S.v < 2, "S must be >= 2.")
                     \o Cond(St.v < 1 \/ St.v > S.v - 1,
                             "St must satisfy 1 <= St <= S-1.")
                     \o Cond(PaOutOfRange(Pa.v, Pt.v),
                             "Pa must satisfy 1 <= Pa <= Pt-1.")
                     \o Cond(P.v < 1, "P must be >= 1.")
                     \o Cond(Pa.v < P.v, "Pa must be >= P.")
                     \o Cond(Pt.v < 2 * P.v, "Pt must be >= 2*P.")
                 warnings ==
                     Cond(PtDivPIsOdd(Pt.v, P.v), PtDivPOdd)
                     \o Cond(Pa.v - P.v < 1, PaEqualsP)
             IN  IF errors # <<>> THEN ValidationResult(FALSE, errors, <<>>)
                 ELSE ValidationResult(TRUE, errors, warnings)

\* What validate_nominal_data does: returns None or raises.  Messages are
\* written without accents and without the interpolated values.
Returned == [exc |-> "none", msg |-> ""]

NominalDataError(msg) == [exc |-> "NominalDataError", msg |-> msg]

\* int("abc"): ValueError, which is not a NominalDataError.
ValueErrorOfInt == [exc |-> "ValueError", msg |-> "invalid literal for int()"]

\* Mutant: the divisibility test is dropped.
PaNotMultipleOfP_dropped(Pa, P) == FALSE

\* The test behind "Pa deve ser multiplo de P."
PaNotMultipleOfP(Pa, P) == (Pa % P) # 0

validate_nominal_data(topology, data) ==
    IF data.S.k = "absent" THEN NominalDataError(ChaveAusente.S)
    ELSE IF data.Pt.k = "absent" THEN NominalDataError(ChaveAusente.Pt)
    ELSE IF data.Pa.k = "absent" THEN NominalDataError(ChaveAusente.Pa)
    ELSE IF ~IsInt(data.S) \/ ~IsInt(data.Pt) \/ ~IsInt(data.Pa)
         THEN ValueErrorOfInt
    ELSE LET S == data.S.v
             Pt == data.Pt.v
             Pa == data.Pa.v
         IN  IF S < 1 THEN NominalDataError("S deve ser >= 1.")
             ELSE IF Pt < 1 THEN NominalDataError("Pt deve ser >= 1.")
             ELSE IF Pa < 0 THEN NominalDataError("Pa deve ser >= 0.")
             ELSE IF Pa > Pt THEN NominalDataError("Pa deve ser <= Pt.")
             ELSE IF topology \in {"yy_internal_fuses", "yy_external_fuses"}
                     /\ Pt - Pa < 1
                  THEN NominalDataError(
                           "Combinacao invalida: o lado direito teria Pt-Pa < 1.")
             ELSE IF topology = "y_internal_fuses" /\ Pa # Pt
                  THEN NominalDataError(
                           "Para y_internal_fuses, Pt deve ser igual a Pa.")
             ELSE IF topology \in {"yy_internal_fuses", "y_internal_fuses"}
                  THEN IF data.P.k = "absent"
                           THEN NominalDataError(ChaveAusente.P)
                       ELSE IF ~IsInt(data.P) THEN ValueErrorOfInt
                       ELSE IF data.P.v < 1
                           THEN NominalDataError("P deve ser >= 1.")
                       ELSE IF PaNotMultipleOfP(Pa, data.P.v)
                           THEN NominalDataError(
                                    "Combinacao invalida: Pa deve ser multiplo de P.")
                       ELSE Returned
             ELSE Returned

DefaultS == 7

DefaultSt == 3

DefaultPt == 9

DefaultPa == 5

DefaultP == 2

validate_inputs(topology, data) ==
    IF topology \in {"h_bridge_internal_fuses", "h_bridge_external_fuses"}
    THEN LET S == Get(data, "S", DefaultS)
             St == Get(data, "St", DefaultSt)
             Pt == Get(data, "Pt", DefaultPt)
             Pa == Get(data, "Pa", DefaultPa)
             P == Get(data, "P", DefaultP)
         IN  IF \E x \in {S, St, Pt, Pa, P} : ~IsInt(x)
             THEN RaisedResult(ValueErrorOfInt.exc)
             ELSE validate_h_bridge_inputs(S, St, Pt, Pa, P)
    ELSE LET r == validate_nominal_data(topology, data)
         IN  CASE r.exc = "none" -> ValidationResult(TRUE, <<>>, <<>>)
               [] r.exc = "NominalDataError" ->
                      ValidationResult(FALSE, <<r.msg>>, <<>>)
               [] OTHER -> RaisedResult(r.exc)

\* Validacao._as_int(data, key, errors): the value (None when it appended
\* an error) and the errors appended.
NoneVal == [k |-> "none", v |-> 0]

Validacao_as_int(data, key) ==
    IF data[key].k = "absent"
        THEN [val |-> NoneVal, errors |-> <<MissingRequiredKey[key]>>]
    ELSE IF ~IsInt(data[key])
        THEN [val |-> NoneVal, errors |-> <<MustBeInteger[key]>>]
    ELSE [val |-> data[key], errors |-> <<>>]

Validacao_validate_common_nominal(topology, data) ==
    LET S == Validacao_as_int(data, "S")
        Pt == Validacao_as_int(data, "Pt")
        Pa == Validacao_as_int(data, "Pa")
        first == S.errors \o Pt.errors \o Pa.errors
    IN  IF first # <<>> THEN ValidationResult(FALSE, first, <<>>)
        ELSE LET errors ==
                     Cond(S.val.v < 1, "S must be >= 1.")
                     \o Cond(Pt.val.v < 1, "Pt must be >= 1.")
                     \o Cond(Pa.val.v < 0, "Pa must be >= 0.")
                     \o Cond(Pa.val.v > Pt.val.v, "Pa must be <= Pt.")
                     \o Cond(topology \in {"yy_internal_fuses",
                                          "yy_external_fuses"}
                             /\ Pt.val.v - Pa.val.v < 1,
                             "Invalid combination: right side would be Pt-Pa < 1.")
                     \o Cond(topology = "y_internal_fuses"
                             /\ Pa.val.v # Pt.val.v,
                             "For y_internal_fuses, Pt must be equal to Pa.")
             IN  ValidationResult(errors = <<>>, errors, <<>>)

\* The errors _validate_internal_fuse_constraint appends.
Validacao_validate_internal_fuse_constraint(data) ==
    LET P == Validacao_as_int(data, "P")
        Pa == Validacao_as_int(data, "Pa")
    IN  P.errors \o Pa.errors
        \o (IF P.val = NoneVal \/ Pa.val = NoneVal THEN <<>>
            ELSE IF P.val.v < 1 THEN <<"P must be >= 1.">>
            ELSE Cond((Pa.val.v % P.val.v) # 0,
                      "Invalid combination: Pa must be a multiple of P."))

\* Validacao.y_internal_fuses and Validacao.yy_internal_fuses
Validacao_internal_fuses(topology, data) ==
    LET base == Validacao_validate_common_nominal(topology, data)
    IN  IF ~base.is_valid THEN base
        ELSE LET errors == base.errors
                           \o Validacao_validate_internal_fuse_constraint(data)
             IN  ValidationResult(errors = <<>>, errors, base.warnings)

Validacao_validate_h_bridge(data) ==
    LET S == Validacao_as_int(data, "S")
        St == Validacao_as_int(data, "St")
        Pt == Validacao_as_int(data, "Pt")
        Pa == Validacao_as_int(data, "Pa")
        P == Validacao_as_int(data, "P")
        first == S.errors \o St.errors \o Pt.errors \o Pa.errors \o P.errors
    IN  IF first # <<>> THEN ValidationResult(FALSE, first, <<>>)
        ELSE LET errors ==
                     Cond(S.val.v < 2, "S must be >= 2.")
                     \o Cond(St.val.v < 1 \/ St.val.v > S.val.v - 1,
                             "St must satisfy 1 <= St <= S-1.")
                     \o Cond(Pt.val.v < 1, "Pt must be >= 1.")
                     \o Cond(Pa.val.v < 1 \/ Pa.val.v >= Pt.val.v,
                             "Pa must satisfy 1 <= Pa <= Pt-1.")
                     \o Cond(P.val.v < 1, "P must be >= 1.")
                     \o Cond(Pa.val.v < P.val.v, "Pa must be >= P.")
                     \o Cond(Pt.val.v < 2 * P.val.v, "Pt must be >= 2*P.")
                 warnings ==
                     Cond(((Pt.val.v \div P.val.v) % 2) # 0, PtDivPOdd)
                     \o Cond(Pa.val.v - P.val.v < 1, PaEqualsP)
             IN  IF errors # <<>> THEN ValidationResult(FALSE, errors, <<>>)
                 ELSE ValidationResult(TRUE, errors, warnings)

\* Validacao.validar: dispatch on the method named as the topology key.
Validacao_validar(topology, data) ==
    CASE topology \in {"y_internal_fuses", "yy_internal_fuses"} ->
             Validacao_internal_fuses(topology, data)
      [] topology \in {"y_external_fuses", "yy_external_fuses"} ->
             Validacao_validate_common_nominal(topology, data)
      [] topology \in {"h_bridge_internal_fuses", "h_bridge_external_fuses"} ->
             Validacao_validate_h_bridge(data)
      [] OTHER -> ValidationResult(FALSE, <<"Unsupported topology.">>, <<>>)

-----------------------------------------------------------------------------
(* The validators applied to a topology key and a nameplate mapping *)

TopologyKeys ==
    {"y_internal_fuses", "yy_internal_fuses", "h_bridge_internal_fuses",
     "y_external_fuses", "yy_external_fuses", "h_bridge_external_fuses",
     "delta"}

\* The values a caller may put under a key: nothing, a text, an integer.
Values(lo, hi) == {Absent, Text} \cup {IntVal(n) : n \in lo..hi}

Mappings ==
    [S : Values(0, MaxS), St : Values(0, MaxS), Pt : Values(-1, MaxPt),
     Pa : Values(-1, MaxPt), P : Values(0, MaxP)]

InitValid ==
    /\ pc = "idle"
    /\ topologia = "none"
    /\ dados = <<>>
    /\ model = NoModel
    /\ ret = NoCall
    /\ tela = <<>>
    /\ exportado = <<>>

Validated(op, topology, data, r) ==
    /\ pc' = "validated"
    /\ topologia' = topology
    /\ dados' = data
    /\ ret' = [op |-> op, exc |-> r.exc, is_valid |-> r.is_valid,
               errors |-> r.errors, warnings |-> r.warnings]
    /\ UNCHANGED <<model, tela, exportado>>

ValidateInputs ==
    /\ pc = "idle"
    /\ \E topology \in TopologyKeys, data \in Mappings :
           Validated("validate_inputs", topology, data,
                     validate_inputs(topology, data))

Validar ==
    /\ pc = "idle"
    /\ \E topology \in TopologyKeys, data \in Mappings :
           Validated("validar", topology, data,
                     Validacao_validar(topology, data))

NextValid == ValidateInputs \/ Validar

SpecValid == InitValid /\ [][NextValid]_vars

-----------------------------------------------------------------------------
(* A validated nameplate, then the model built from it and swept over its   *)
(* default domain                                                           *)

\* The nameplates handed to validate_inputs: every key an integer.
Nameplates ==
    [S : {IntVal(n) : n \in 1..MaxS}, St : {IntVal(n) : n \in 1..MaxS},
     Pt : {IntVal(n) : n \in 1..MaxPt}, Pa : {IntVal(n) : n \in 0..MaxPt},
     P : {IntVal(n) : n \in 1..MaxP}, N : {IntVal(n) : n \in 1..MaxN},
     Su : {IntVal(n) : n \in 1..MaxSu}, G : {IntVal(n) : n \in GVals}]

ValidateNameplate ==
    /\ pc = "idle"
    /\ \E topology \in TopologyKeys \ {"delta"}, data \in Nameplates :
           Validated("validate_inputs", topology, data,
                     validate_inputs(topology, data))

\* The class of a topology, its constructor called with the nameplate, and
\* calcular(G) called on the instance (calcular(G, range(0, Pa)) on the
\* H-bridge with external fuses, whose calcular has no default domain).
SweepOfNameplate(topology, data) ==
    LET S == data.S.v
        St == data.St.v
        Pt == data.Pt.v
        Pa == data.Pa.v
        P == data.P.v
        N == data.N.v
        Su == data.Su.v
        G == data.G.v
        built(ok, m, r) ==
            IF ok THEN [exc |-> r.exc, model |-> [m EXCEPT !.df = r.df]]
            ELSE [exc |-> "ValueError", model |-> NoModel]
    IN  CASE topology = "yy_internal_fuses" ->
                 built(T07_validate(S, Pt, Pa, P, N, Su),
                       NewModel("T07", S, 0, Pt, Pa, P, N, Su),
                       T07_calcular(NewModel("T07", S, 0, Pt, Pa, P, N, Su),
                                    G, NoneArg))
          [] topology = "y_internal_fuses" ->
                 built(T07y_validate(S, Pt, Pa, P, N, Su),
                       NewModel("T07y", S, 0, Pt, Pa, P, N, Su),
                       T07y_calcular(NewModel("T07y", S, 0, Pt, Pa, P, N, Su),
                                     G, NoneArg))
          [] topology = "yy_external_fuses" ->
                 built(T03_validate(S, Pt, Pa),
                       NewModel("T03", S, 0, Pt, Pa, 0, 0, 0),
                       T03_calcular(NewModel("T03", S, 0, Pt, Pa, 0, 0, 0),
                                    G, NoneArg))
          [] topology = "y_external_fuses" ->
                 built(T02_validate(S, Pt),
                       NewModel("T02", S, 0, Pt, 0, 0, 0, 0),
                       T02_calcular(NewModel("T02", S, 0, Pt, 0, 0, 0, 0),
                                    G, NoneArg))
          [] topology = "h_bridge_external_fuses" ->
                 built(T06_validate(S, St, Pt, Pa),
                       NewModel("T06", S, St, Pt, Pa, 0, 0, 0),
                       T06_calcular(NewModel("T06", S, St, Pt, Pa, 0, 0, 0),
                                    G, SeqArg(Range(0, Pa))))
          [] topology = "h_bridge_internal_fuses" ->
                 built(T08_check_parameters(S, St, Pt, Pa, P, N, Su),
                       NewModel("T08", S, St, Pt, Pa, P, N, Su),
                       T08_calcular(NewModel("T08", S, St, Pt, Pa, P, N, Su),
                                    G))

SweepValidated ==
    /\ pc = "validated" /\ ret.exc = "none" /\ ret.is_valid
    /\ \E c \in {SweepOfNameplate(topologia, dados)} :
           /\ pc' = "validated_swept"
           /\ model' = c.model
           /\ ret' = [op |-> "calcular", G |-> dados.G.v, arg |-> NoneArg,
                      exc |-> c.exc]
    /\ UNCHANGED <<topologia, dados, tela, exportado>>

NextSweep == ValidateNameplate \/ SweepValidated

SpecSweep == InitValid /\ [][NextSweep]_vars

-----------------------------------------------------------------------------
(* The application pipeline: run_main_part_1 (form, validation, figure),    *)
(* then TopologyConfig.compute (model, sweep, conversion, critical row)     *)

MaxKV == 2

RegisteredTopologies ==
    {"yy_internal_fuses", "y_internal_fuses", "h_bridge_internal_fuses",
     "yy_external_fuses", "h_bridge_external_fuses"}

\* The number inputs the form of a topology shows enabled, besides S.
FormFields(topology) ==
    CASE topology = "y_internal_fuses" -> {"N", "Su"}
      [] topology = "yy_internal_fuses" -> {"Pt", "Pa", "P", "N", "Su"}
      [] topology = "yy_external_fuses" -> {"Pt", "Pa"}
      [] topology = "h_bridge_internal_fuses" ->
             {"St", "Pt", "Pa", "P", "N", "Su"}
      [] topology = "h_bridge_external_fuses" -> {"St", "Pt", "Pa"}

\* What the user can enter: every number input has min_value 1.
FormRange(topology, key, max) ==
    IF key \in FormFields(topology) THEN 1..max ELSE {1}

FormInputs(topology) ==
    [S : 1..MaxS, St : FormRange(topology, "St", MaxS),
     Pt : FormRange(topology, "Pt", MaxPt),
     Pa : FormRange(topology, "Pa", MaxPt),
     P : FormRange(topology, "P", MaxP), N : FormRange(topology, "N", MaxN),
     Su : FormRange(topology, "Su", MaxSu), G : GVals,
     V_ll : 1..MaxKV, V_rated : 1..MaxKV]

\* get_dados_nominais_banco: the mapping built from the form.  The voltages
\* are kept in kV; power and frequency do not reach the quantities modelled.
get_dados_nominais_banco(topology, u) ==
    LET base == [S |-> IntVal(u.S), St |-> Absent, Pt |-> Absent,
                 Pa |-> Absent, P |-> Absent, N |-> Absent, Su |-> Absent,
                 G |-> IntVal(u.G), V_ll |-> IntVal(u.V_ll),
                 V_rated |-> IntVal(u.V_rated),
                 topologia_protecao |-> topology]
    IN  CASE topology = "y_internal_fuses" ->
                 [base EXCEPT !.Pt = IntVal(1), !.Pa = IntVal(1),
                              !.P = IntVal(1), !.N = IntVal(u.N),
                              !.Su = IntVal(u.Su)]
          [] topology = "yy_internal_fuses" ->
                 [base EXCEPT !.Pt = IntVal(u.Pt), !.Pa = IntVal(u.Pa),
                              !.P = IntVal(u.P), !.N = IntVal(u.N),
                              !.Su = IntVal(u.Su)]
          [] topology = "yy_external_fuses" ->
                 [base EXCEPT !.Pt = IntVal(u.Pt), !.Pa = IntVal(u.Pa)]
          [] topology = "h_bridge_internal_fuses" ->
                 [base EXCEPT !.St = IntVal(u.St), !.Pt = IntVal(u.Pt),
                              !.Pa = IntVal(u.Pa), !.P = IntVal(u.P),
                              !.N = IntVal(u.N), !.Su = IntVal(u.Su)]
          [] topology = "h_bridge_external_fuses" ->
                 [base EXCEPT !.St = IntVal(u.St), !.Pt = IntVal(u.Pt),
                              !.Pa = IntVal(u.Pa)]

StError(text) == [kind |-> "error", text |-> text]

StWarning(text) == [kind |-> "warning", text |-> text]

\* show_topology_figure: what it writes to the page besides the figure.
\* Only the single wye draws without validating; the others show the
\* validator's errors as a warning and return.
show_topology_figure(data) ==
    LET topology == data.topologia_protecao
    IN  IF topology = "y_internal_fuses" THEN <<>>
        ELSE LET result == validate_inputs(topology, data)
             IN  IF ~result.is_valid THEN <<StWarning(result.errors)>>
                 ELSE <<>>

InitApp ==
    /\ pc = "start"
    /\ topologia = "none"
    /\ dados = <<>>
    /\ model = NoModel
    /\ ret = NoCall
    /\ tela = <<>>
    /\ exportado = <<>>

\* run_main_part_1: st.error and st.stop on a validation failure, else the
\* figure and the context returned to main.
RunMainPart1 ==
    /\ pc = "start"
    /\ \E topology \in RegisteredTopologies :
         \E u \in FormInputs(topology) :
           LET data == get_dados_nominais_banco(topology, u)
               v == validate_nominal_data(topology, data)
           IN  /\ topologia' = topology
               /\ dados' = data
               /\ IF v.exc = "NominalDataError"
                      THEN /\ tela' = Append(tela, StError(<<v.msg>>))
                           /\ pc' = "stopped"
                  ELSE IF v.exc # "none"
                      THEN /\ tela' = Append(tela, StError(
                                  <<"Parametros invalidos. Revise os dados informados.">>))
                           /\ pc' = "stopped"
                  ELSE /\ tela' = tela \o show_topology_figure(data)
                       /\ pc' = "ctx"
               /\ UNCHANGED <<model, ret, exportado>>

Hundred == 100

TenThousandth == 10000

\* formatar_valores: round(x, 4), in ten-thousandths, ties to even.
Round4(q) ==
    LET n   == Abs(q[1])
        d   == q[2]
        r1  == n % d
        r2  == (r1 * Hundred) % d
        r3  == (r2 * Hundred) % d
        val == (n \div d) * TenThousandth + ((r1 * Hundred) \div d) * Hundred
               + ((r2 * Hundred) \div d)
        up  == IF 2 * r3 > d THEN 1
               ELSE IF 2 * r3 = d /\ val % 2 = 1 THEN 1 ELSE 0
    IN  IF q[1] < 0 THEN -(val + up) ELSE val + up

\* converter_unidades, columns Vcu and Vcu2 of df_real:
\* Vcu2 = Vcu * V_unit / V_unit_rated, where V_unit = V_ll / sqrt(3) / S
\* and V_unit_rated = V_rated / sqrt(3) / S.  The other columns are in
\* physical units and are not modelled.
converter_unidades(df, V_ll, V_rated) ==
    [i \in 1..Len(df) |->
        [Vcu |-> Round4(Rat(df[i].Vcu, Millionth)),
         Vcu2 |-> Round4(Rat(df[i].Vcu * V_ll, Millionth * V_rated))]]

\* The fault index a row is labelled with: column f or column n.
RowIndex(cls, r) == IF cls \in {"T07", "T07y", "T08"} THEN r.f ELSE r.n

NoLine == [given |-> FALSE, v |-> 0]

Line(v) == [given |-> TRUE, v |-> v]

\* 1.1, in millionths
VcuLimit == 1100000

\* _postprocess_and_export: the row where Vcu is maximal but <= 1.1
\* (idxmax: the first such row); an empty table has no columns.
line_max_vcu(cls, df) ==
    LET mask == {i \in 1..Len(df) : df[i].Vcu <= VcuLimit}
    IN  IF mask = {} THEN NoLine
        ELSE LET idx_max == CHOOSE i \in mask :
                                /\ \A j \in mask : df[j].Vcu <= df[i].Vcu
                                /\ \A j \in mask :
                                       df[j].Vcu = df[i].Vcu => i <= j
             IN  Line(RowIndex(cls, df[idx_max]))

\* The class a registered topology computes with, its constructor's
\* validation and its sweep as MasterBankClasses.compute_table*_from_dict
\* calls them on the coerced mapping d.
ClassOf(topology) ==
    CASE topology = "yy_internal_fuses" -> "T07"
      [] topology = "y_internal_fuses" -> "T07y"
      [] topology = "h_bridge_internal_fuses" -> "T08"
      [] topology = "yy_external_fuses" -> "T03"
      [] topology = "h_bridge_external_fuses" -> "T06"

\* _coerce_inputs: the integer keys present, 0 standing for a key that the
\* constructor of the topology does not take.
coerce_inputs(data) ==
    [key \in {"S", "St", "Pt", "Pa", "P", "N", "Su", "G"} |->
        IF IsInt(data[key]) THEN data[key].v ELSE 0]

ConstructorAccepts(cls, d) ==
    CASE cls = "T07" -> T07_validate(d.S, d.Pt, d.Pa, d.P, d.N, d.Su)
      [] cls = "T07y" -> T07y_validate(d.S, d.Pt, d.Pa, d.P, d.N, d.Su)
      [] cls = "T08" ->
             T08_check_parameters(d.S, d.St, d.Pt, d.Pa, d.P, d.N, d.Su)
      [] cls = "T03" -> T03_validate(d.S, d.Pt, d.Pa)
      [] cls = "T06" -> T06_validate(d.S, d.St, d.Pt, d.Pa)

\* The sweep each compute function runs.  Only compute_table03_from_dict
\* hands the caller's f_values to calcular (n_values = list(f_values)); the
\* internal-fuse functions call calcular(G) alone, and
\* compute_table06_from_dict, which takes no f_values, sweeps
\* np.arange(0, Pa).
SweepOf(cls, m, G, f_values) ==
    CASE cls = "T07" -> T07_calcular(m, G, NoneArg)
      [] cls = "T07y" -> T07y_calcular(m, G, NoneArg)
      [] cls = "T08" -> T08_calcular(m, G)
      [] cls = "T03" -> T03_calcular(m, G, f_values)
      [] cls = "T06" -> T06_calcular(m, G, SeqArg(Range(0, m.Pa)))

\* _postprocess_and_export: the labels handed to the exporters.  The f_values
\* it was called with are replaced by the index column (f or n) of the
\* per-unit table, or by range(len(df_real)) for a table without columns.
ExportLabels_asPassed(cls, df, f_values) ==
    IF f_values.given THEN f_values.seq ELSE Range(0, Len(df))

ExportLabels(cls, df, f_values) ==
    [i \in 1..Len(df) |-> RowIndex(cls, df[i])]

\* exportar_df_latex (transpose=True): ValueError when the labels and the
\* table differ in length; else the colour of each body row, one row per
\* label.  The first row whose label is line_max_vcu is the target.
exportar_df_latex(df_real, f_values, line) ==
    IF Len(f_values) # Len(df_real) THEN [exc |-> "ValueError", colors |-> <<>>]
    ELSE LET hits   == {i \in 1..Len(f_values) :
                           line.given /\ f_values[i] = line.v}
             target == IF hits = {} THEN 0
                       ELSE CHOOSE i \in hits : \A j \in hits : i <= j
         IN  [exc |-> "none",
              colors |-> [i \in 1..Len(f_values) |->
                             IF target = 0 THEN "none"
                             ELSE IF i = target THEN "red"
                             ELSE IF i = target - 2 THEN "blue"
                             ELSE "none"]]

\* exportar_df_excel: the same length check; the sheet has no emphasis.
exportar_df_excel(df_real, f_values) ==
    [exc |-> IF Len(f_values) # Len(df_real) THEN "ValueError" ELSE "none"]

\* The two exporter calls of _postprocess_and_export and what they gave.
Exported(df_real, labels, line, tex, xlsx) ==
    <<[to |-> "exportar_df_latex", df_real |-> df_real, f_values |-> labels,
       line_max_vcu |-> line, exc |-> tex.exc, colors |-> tex.colors],
      [to |-> "exportar_df_excel", df_real |-> df_real, f_values |-> labels,
       exc |-> xlsx.exc]>>

\* _postprocess_and_export on the swept table r of the instance m.  It
\* returns (df_ieee, df_real); the labels, df_real and the critical row go to
\* the exporters, whose exceptions it lets through.  An exception of the
\* sweep aborts the computation before it.
postprocess_and_export(cls, m, r, df_real, f_values) ==
    IF r.exc # "none"
    THEN [exc |-> r.exc, sweep |-> TRUE, model |-> m, df_ieee |-> <<>>,
          df_real |-> <<>>, exportado |-> <<>>]
    ELSE LET labels == ExportLabels(cls, r.df, f_values)
             line   == line_max_vcu(cls, r.df)
             tex    == exportar_df_latex(df_real, labels, line)
             xlsx   == exportar_df_excel(df_real, labels)
             out    == Exported(df_real, labels, line, tex, xlsx)
         IN  IF tex.exc # "none"
             THEN [exc |-> tex.exc, sweep |-> TRUE,
                   model |-> [m EXCEPT !.df = r.df], df_ieee |-> <<>>,
                   df_real |-> <<>>, exportado |-> <<out[1]>>]
             ELSE IF xlsx.exc # "none"
             THEN [exc |-> xlsx.exc, sweep |-> TRUE,
                   model |-> [m EXCEPT !.df = r.df], df_ieee |-> <<>>,
                   df_real |-> <<>>, exportado |-> out]
             ELSE [exc |-> "none", sweep |-> TRUE,
                   model |-> [m EXCEPT !.df = r.df], df_ieee |-> r.df,
                   df_real |-> df_real, exportado |-> out]

\* The instance the compute function constructs.
ModelOf(cls, d) == NewModel(cls, d.S, d.St, d.Pt, d.Pa, d.P, d.N, d.Su)

\* The keyword argument f_values of TopologyConfig.compute:
\* np.arange(N - 1).tolist() for the internal-fuse keys, absent otherwise.
compute_f_values(topology, data) ==
    IF topology \in {"yy_internal_fuses", "y_internal_fuses",
                     "h_bridge_internal_fuses"}
    THEN SeqArg(Range(0, data.N.v - 1))
    ELSE NoneArg

\* TopologyConfig.compute(dados_nominais_banco) and a caller of its own hand
\* the nameplate and f_values to the compute function of the topology.
CallComputeFn(op, f_values) ==
    /\ pc' = "compute_fn"
    /\ ret' = [op |-> op, exc |-> "none", sweep |-> FALSE,
               f_values |-> f_values, df_ieee |-> <<>>, df_real |-> <<>>]
    /\ UNCHANGED <<topologia, dados, model, tela, exportado>>

\* main.py: config = get_topology_config(topologia);
\* tabela, df_ieee, df_real = config.compute(dados_nominais_banco)
Compute ==
    /\ pc = "ctx"
    /\ CallComputeFn("compute", compute_f_values(topologia, dados))

\* The explicit index sequences a caller passes as f_values.
ExplicitSweeps == {<<0>>, <<1, 0>>}

\* A caller of MasterBankClasses.compute_table07_from_dict,
\* compute_table07_single_from_dict, compute_table08_from_dict or
\* compute_table03_from_dict that passes its own f_values.
ComputeWithFValues ==
    /\ pc = "ctx"
    /\ ClassOf(topologia) # "T06"
    /\ \E s \in ExplicitSweeps :
           CallComputeFn("compute_table_from_dict", SeqArg(s))

\* The compute function ends: the tuple (tabela, df_ieee, df_real) is
\* returned, or the exception propagates; the exporters have received
\* exportado.
Computed(c) ==
    /\ pc' = IF c.exc = "none" THEN "computed" ELSE "compute_raised"
    /\ model' = c.model
    /\ ret' = [ret EXCEPT !.exc = c.exc, !.sweep = c.sweep,
                          !.df_ieee = c.df_ieee, !.df_real = c.df_real]
    /\ exportado' = c.exportado
    /\ UNCHANGED <<topologia, dados, tela>>

\* MasterBankClasses.compute_table*_from_dict(dados, f_values=f_values) for
\* the class cls: the constructor on the coerced mapping, the sweep, then
\* _postprocess_and_export.
compute_table_from_dict(cls, f_values) ==
    IF ~ConstructorAccepts(cls, coerce_inputs(dados))
    THEN Computed([exc |-> "ValueError", sweep |-> FALSE, model |-> NoModel,
                   df_ieee |-> <<>>, df_real |-> <<>>, exportado |-> <<>>])
    ELSE \E m \in {ModelOf(cls, coerce_inputs(dados))} :
         \E r \in {SweepOf(cls, m, dados.G.v, f_values)} :
         \E df_real \in {converter_unidades(r.df, dados.V_ll.v,
                                            dados.V_rated.v)} :
             Computed(postprocess_and_export(cls, m, r, df_real,
                                                  f_values))

ComputeTableFromDict ==
    /\ pc = "compute_fn"
    /\ compute_table_from_dict(ClassOf(topologia), ret.f_values)

Next == RunMainPart1 \/ Compute \/ ComputeWithFValues \/ ComputeTableFromDict

Spec == InitApp /\ [][Next]_vars

-----------------------------------------------------------------------------
(* ElectricalUtils as pure functions: calcular_nominais_celula applied to a *)
(* nameplate, then converter_unidades applied to a per-unit table and the   *)
(* Basis.  Voltages are counted in units of sqrt(3) V and the frequency in  *)
(* units of 1000/(2 pi) Hz, so that every quantity of the Basis is          *)
(* rational: V_ll = v stands for v * sqrt(3) volts and f = w for            *)
(* 2 * pi * f = 1000 * w.  A cell of the converted table is kept in         *)
(* ten-thousandths.                                                         *)

\* 2 * pi * f of the frequency f = 1
TwoPiF == 1000

\* The nameplates handed to calcular_nominais_celula; Su and N are optional.
ElectricalNameplates ==
    [V_ll : (-1)..MaxKV, V_rated : 1..MaxKV, Q_total : (-1)..MaxKV,
     f : (-1)..MaxKV, S : (-1)..MaxKV, Pt : (-1)..MaxKV,
     Su : {Absent, IntVal(0), IntVal(1)}, N : {Absent, IntVal(0), IntVal(1)}]

\* calcular_nominais_celula(dados_banco): the dict returned, or the
\* exception of the first division by zero (of None / N when only N is
\* given).  Nothing in it checks the sign of an input.
calcular_nominais_celula(d) ==
    LET V_phase == RInt(d.V_ll)
        I_bank  == RDiv(RInt(d.Q_total), RInt(3 * d.V_ll))
        Q_phase == Rat(d.Q_total, 3)
        C_phase == RDiv(Q_phase,
                        RMul(RInt(TwoPiF * d.f), RInt(d.V_ll * d.V_ll)))
        C_unit  == RDiv(RMul(C_phase, RInt(d.S)), RInt(d.Pt))
        V_unit  == RDiv(RInt(d.V_ll), RInt(d.S))
        I_unit  == RDiv(I_bank, RInt(d.Pt))
        hasSu   == d.Su.k # "absent"
        hasN    == d.N.k # "absent"
        raised(exc) == [exc |-> exc, bases |-> <<>>]
        NoValue  == [given |-> FALSE, v |-> Zero]
        Value(q) == [given |-> TRUE, v |-> q]
    IN  IF \E q \in {I_bank, C_phase, C_unit, V_unit, I_unit} : IsRaised(q)
            THEN raised("ZeroDivisionError")
        ELSE IF hasSu /\ d.Su.v = 0 THEN raised("ZeroDivisionError")
        ELSE IF hasN /\ ~hasSu THEN raised("TypeError")
        ELSE IF hasN /\ d.N.v = 0 THEN raised("ZeroDivisionError")
        ELSE [exc |-> "none",
              bases |->
                  [V_ll |-> d.V_ll, V_phase |-> V_phase, I_bank |-> I_bank,
                   C_phase |-> C_phase, C_unit |-> C_unit,
                   V_unit |-> V_unit, I_unit |-> I_unit,
                   C_grupo_serie |->
                       IF hasSu THEN Value(RMul(C_unit, RInt(d.Su.v)))
                       ELSE NoValue,
                   V_grupo_serie |->
                       IF hasSu THEN Value(RDiv(V_unit, RInt(d.Su.v)))
                       ELSE NoValue,
                   I_grupo_serie |-> IF hasSu THEN Value(I_unit) ELSE NoValue,
                   C_element |->
                       IF hasN
                       THEN Value(RDiv(RMul(C_unit, RInt(d.Su.v)),
                                       RInt(d.N.v)))
                       ELSE NoValue,
                   V_element |->
                       IF hasN THEN Value(RDiv(V_unit, RInt(d.Su.v)))
                       ELSE NoValue,
                   I_element |->
                       IF hasN THEN Value(RDiv(I_unit, RInt(d.N.v)))
                       ELSE NoValue,
                   V_rated |-> d.V_rated, S |-> d.S]]

\* The per-unit columns converter_unidades looks for, and the columns it
\* creates from each besides the copy of the column itself.
ConvertedColumns ==
    [Cp |-> {"Cp_uF"}, Cu |-> {"C_unit_uF"}, Vng |-> {"V_ng_V"},
     In |-> {"In_A"}, Ig |-> {"Ig_A"}, Chn |-> {"Chn_uF"},
     Vhn |-> {"Vhn_V"}, Ih |-> {"Ih_A"}, Vcu |-> {"Vcu_kV", "Vcu2"}]

\* One row of converter_unidades(df, resultados): out starts empty, receives
\* the columns of ConvertedColumns that df has, and every cell goes through
\* formatar_valores.  The factor 1e6 of the capacitances turns the
\* millionths of the per-unit cell into units.
converter_unidades_row(r, b) ==
    LET pu(c) == Rat(r[c], Millionth)
        V_unit_rated == Rat(b.V_rated, b.S)
        cell(c) ==
            CASE c \in DOMAIN ConvertedColumns -> pu(c)
              [] c = "Cp_uF" -> RMul(RInt(r.Cp), b.C_phase)
              [] c = "C_unit_uF" -> RMul(RInt(r.Cu), b.C_unit)
              [] c = "V_ng_V" -> RMul(pu("Vng"), b.V_phase)
              [] c = "In_A" -> RMul(pu("In"), b.I_bank)
              [] c = "Ig_A" -> RMul(pu("Ig"), b.I_bank)
              [] c = "Chn_uF" -> RMul(RInt(r.Chn), b.C_phase)
              [] c = "Vhn_V" -> RMul(pu("Vhn"), b.V_phase)
              [] c = "Ih_A" -> RMul(pu("Ih"), b.I_bank)
              [] c = "Vcu_kV" ->
                     RDiv(RMul(pu("Vcu"), b.V_unit), RInt(Thousand))
              [] c = "Vcu2" ->
                     RMul(pu("Vcu"), RDiv(b.V_unit, V_unit_rated))
        cols == UNION {{c} \cup ConvertedColumns[c] :
                           c \in DOMAIN r \cap DOMAIN ConvertedColumns}
    IN  [c \in cols |-> Round4(cell(c))]

\* Per-unit tables: the columns of a double-wye internal-fuse table, of an
\* H-bridge external-fuse table, and of a table with the column Cp alone;
\* one row, or two rows; G, f and n are 1, the other cells of a row hold the
\* same number, 0.5 or 1.0.
PerUnitColumns ==
    {{"G", "f", "Ci", "Vg", "Cu", "Cg", "Cs", "Cp", "Vng", "Vln", "Vcu",
      "Ve", "Iu", "Ist", "Iph", "Ig", "In"},
     {"n", "Cu1", "Chn", "Cp", "Cp0", "Vln", "Vhn", "Ih", "Vcu", "Iu"},
     {"Cp"}}

PerUnitTables ==
    LET row(cols, x) ==
            [c \in cols |-> IF c \in {"G", "f", "n"} THEN Cell1 ELSE x]
    IN  UNION {{<<row(cols, x)>>, <<row(cols, x), row(cols, Cell1)>>} :
                   cols \in PerUnitColumns, x \in {Cell1 \div 2, Cell1}}

InitConv ==
    /\ pc = "idle"
    /\ topologia = "none"
    /\ dados = <<>>
    /\ model = NoModel
    /\ ret = NoCall
    /\ tela = <<>>
    /\ exportado = <<>>

CalcularNominaisCelula ==
    /\ pc = "idle"
    /\ \E d \in ElectricalNameplates :
       \E c \in {calcular_nominais_celula(d)} :
           /\ pc' = IF c.exc = "none" THEN "bases" ELSE "bases_raised"
           /\ dados' = d
           /\ ret' = [op |-> "calcular_nominais_celula", exc |-> c.exc,
                      bases |-> c.bases]
    /\ UNCHANGED <<topologia, model, tela, exportado>>

ConverterUnidades ==
    /\ pc = "bases"
    /\ \E df \in PerUnitTables :
           ret' = [op |-> "converter_unidades", exc |-> "none",
                   bases |-> ret.bases, df |-> df,
                   out |-> [i \in 1..Len(df) |->
                               converter_unidades_row(df[i], ret.bases)]]
    /\ pc' = "converted"
    /\ UNCHANGED <<topologia, dados, model, tela, exportado>>

NextConv == CalcularNominaisCelula \/ ConverterUnidades

SpecConv == InitConv /\ [][NextConv]_vars

-----------------------------------------------------------------------------
(* Properties of the models and their sweeps (checked under SpecModel) *)

\* The classes behind the five registered topologies.
TopologyClasses == {"T07", "T07y", "T08", "T03", "T06"}

CapacitanceColumns(cls) ==
    CASE cls \in {"T07", "T07y"} -> {"Ci", "Cu", "Cg", "Cs", "Cp"}
      [] cls = "T03" -> {"Cg", "Cs", "Cp"}
      [] cls = "T02" -> {"Cg", "Cp"}
      [] cls = "T06" -> {"Chn", "Cp"}
      [] cls = "T08" -> {"Cu", "Chn", "Cp"}

VoltageCurrentColumns(cls) ==
    CASE cls \in {"T07", "T07y"} ->
             {"Vg", "Vng", "Vln", "Vcu", "Ve", "Iu", "Ist", "Iph", "Ig", "In"}
      [] cls = "T03" -> {"Vng", "Vln", "Vcu", "Iu", "Iy", "Iph", "Ig", "In"}
      [] cls = "T02" -> {"Vng", "Vln", "Vcu", "Iu", "Iph", "Ig"}
      [] cls = "T06" -> {"Vln", "Vhn", "Ih", "Vcu", "Iu"}
      [] cls = "T08" -> {"Vln", "Vh", "Ih", "Vcu", "Ve", "Iu"}

\* The unbalance quantities, zero in a balanced bank.
UnbalanceColumns(cls) ==
    CASE cls \in {"T07", "T07y", "T03"} -> {"Vng", "Ig", "In"}
      [] cls = "T02" -> {"Vng", "Ig"}
      [] cls \in {"T06", "T08"} -> {"Ih"}

SweepDone == pc = "swept" /\ ret.op = "calcular" /\ ret.exc = "none"

\* C3 as stated: in the row of fault index 0 of each of the five models,
\* every capacitance-ratio column and every per-unit voltage/current column
\* equals 1.0.
C3_AllOnesAtZero ==
    (SweepDone /\ model.cls \in TopologyClasses) =>
        \A i \in 1..Len(model.df) :
            RowIndex(model.cls, model.df[i]) = 0 =>
                \A c \in CapacitanceColumns(model.cls)
                         \cup VoltageCurrentColumns(model.cls) :
                    model.df[i][c] = Cell1

\* C3 amended: in the row of fault index 0, Vln, Vcu and Iu (and Vg, Ve,
\* Ist/Iy, Iph where reported) equal 1.0 and the unbalance columns (Vng, Ig,
\* In, Ih) equal 0; the capacitance ratios equal 1.0 in the wye models, while
\* in the H-bridge models Cu = 1.0, Chn = Pt/St, Cp = Cp0 = Pt/S and
\* Vhn = St/S (each rounded to 6 decimals).
C3_Baseline ==
    (SweepDone /\ model.cls \in TopologyClasses) =>
        \A i \in 1..Len(model.df) :
            RowIndex(model.cls, model.df[i]) = 0 =>
                LET r == model.df[i]
                    cls == model.cls
                IN  /\ \A c \in UnbalanceColumns(cls) : r[c] = 0
                    /\ \A c \in (VoltageCurrentColumns(cls)
                                 \ UnbalanceColumns(cls)) \ {"Vhn", "Vh"} :
                           r[c] = Cell1
                    /\ cls \in {"T07", "T07y", "T03"} =>
                           \A c \in CapacitanceColumns(cls) : r[c] = Cell1
                    /\ cls \in {"T06", "T08"} =>
                           /\ r.Chn = Round6(Rat(model.Pt, model.St))
                           /\ r.Cp = Round6(Rat(model.Pt, model.S))
                           /\ r.Cp0 = r.Cp
                    /\ cls = "T06" =>
                           r.Vhn = Round6(Rat(model.St, model.S)) /\ r.Cu1 = Cell1
                    /\ cls = "T08" =>
                           r.Vh = Round6(Rat(model.St, model.S)) /\ r.Cu = Cell1

\* An H-bridge sweep whose row 0 has Chn different from 1.0 and Ih = 0.
C3_Witness ==
    /\ SweepDone /\ model.cls = "T06" /\ Len(model.df) > 0
    /\ model.df[1].n = 0
    /\ model.df[1].Chn # Cell1
    /\ model.df[1].Vcu = Cell1

\* C4: a sweep with G = 0 yields Vng = 0 and In = 0 in every row, for every
\* model that reports Vng (and In).
C4_GroundedNoUnbalance ==
    (SweepDone /\ ret.G = 0 /\ model.cls \in {"T07", "T07y", "T03", "T02"}) =>
        \A i \in 1..Len(model.df) :
            /\ model.df[i].Vng = 0
            /\ model.cls # "T02" => model.df[i].In = 0

\* A grounded double-wye sweep with a faulted row (Cp below 1.0).
C4_Witness ==
    /\ SweepDone /\ ret.G = 0 /\ model.cls = "T07" /\ model.Pt > model.Pa
    /\ Len(model.df) >= 2
    /\ model.df[2].Cp < Cell1

\* C5: in the double-wye internal-fuse model with G = 1, Vcu is
\* non-decreasing in the fault index over 0..N-1.
C5_VcuMonotone ==
    (SweepDone /\ ret.G = 1 /\ model.cls = "T07") =>
        \A i, j \in 1..Len(model.df) :
            (/\ 0 <= model.df[i].f
             /\ model.df[i].f < model.df[j].f
             /\ model.df[j].f <= model.N - 1)
                => model.df[i].Vcu <= model.df[j].Vcu

\* An ungrounded double-wye sweep of at least three rows in which Vcu grew.
C5_Witness ==
    /\ SweepDone /\ ret.G = 1 /\ model.cls = "T07" /\ ~ret.arg.given
    /\ Len(model.df) >= 3
    /\ model.df[1].Vcu < model.df[3].Vcu

\* The default domain the sweep is documented to cover.
DocumentedDomain(m) ==
    CASE m.cls \in {"T07", "T07y", "T08"} -> Range(0, m.N)
      [] m.cls \in {"T03", "T06"} -> Range(0, m.Pa)
      [] m.cls = "T02" -> Range(0, m.Pt)

\* C10: called without an index sequence, calcular completes with exactly
\* one row per index of 0..N-1 (internal fuses), 0..Pa-1 (double-wye and
\* H-bridge external) or 0..Pt-1 (single-wye external), in that order.
C10_DefaultDomain ==
    (pc = "swept" /\ ret.op = "calcular" /\ ~ret.arg.given
     /\ model.cls \in {"T07", "T07y", "T03", "T02", "T06"}) =>
        /\ ret.exc = "none"
        /\ Len(model.df) = Len(DocumentedDomain(model))
        /\ \A i \in 1..Len(model.df) :
               RowIndex(model.cls, model.df[i]) = DocumentedDomain(model)[i]

\* The indices outside the domain of a model: f < 0 or f > N with internal
\* fuses, n < 0 or n > Pa (n > Pt for the single wye) with external fuses.
OutOfDomain(m, i) ==
    CASE m.cls \in {"T07", "T07y", "T08"} -> i < 0 \/ i > m.N
      [] m.cls \in {"T03", "T06"} -> i < 0 \/ i > m.Pa
      [] m.cls = "T02" -> i < 0 \/ i > m.Pt

\* C12: a calcular call whose sequence holds an index outside the domain
\* fails with the out-of-range error (ValueError) and produces no row.
C12_OutOfRangeRejected ==
    (/\ pc = "swept" /\ ret.op = "calcular" /\ ret.arg.given
     /\ \E i \in 1..Len(ret.arg.seq) :
            ret.arg.seq[i] # SU /\ OutOfDomain(model, ret.arg.seq[i]))
        => ret.exc = "ValueError" /\ model.df = <<>>

\* The index at which the healthy parallel capacitance Cg is exactly zero.
CgIsZero(m, i) ==
    CASE m.cls \in {"T07", "T07y"} -> i = m.N /\ m.P = 1
      [] m.cls = "T03" -> i = m.Pa
      [] m.cls = "T02" -> i = m.Pt
      [] OTHER -> FALSE

\* C13: in the models whose Vcu is Vln * Cs / Cg, a calcular call at the
\* index where Cg is zero completes with the row Cg = 0, Vcu = Vln * S.
C13_LimitingCase ==
    (/\ pc = "swept" /\ ret.op = "calcular" /\ ret.G \in {0, 1}
     /\ ret.arg.given /\ Len(ret.arg.seq) = 1
     /\ CgIsZero(model, ret.arg.seq[1]))
        => /\ ret.exc = "none"
           /\ Len(model.df) = 1
           /\ model.df[1].Cg = 0
           /\ LET n == ret.arg.seq[1]
                  c == CASE model.cls = "T07" -> T07_Chain(model, ret.G, n)
                         [] model.cls = "T07y" -> T07y_Chain(model, ret.G, n)
                         [] model.cls = "T03" -> T03_Chain(model, ret.G, n)
                         [] model.cls = "T02" -> T02_Chain(model, ret.G, n)
              IN  model.df[1].Vcu = Round6(RMul(c.Vln, RInt(model.S)))

\* C15 as stated: in Table06HBridgeMinimal a sweep over indices that pass
\* the range check (0 <= n <= Pa) and the sentinel completes with one row
\* per entry, in order, the sentinel rows holding "SC" in Vcu and Iu.
C15_SentinelSweepAllValid ==
    (/\ pc = "swept" /\ ret.op = "calcular" /\ model.cls = "T06"
     /\ ret.G \in {0, 1} /\ ret.arg.given
     /\ \A i \in 1..Len(ret.arg.seq) :
            ret.arg.seq[i] = SU \/ T06_InRange(model, ret.arg.seq[i]))
        => /\ ret.exc = "none"
           /\ Len(model.df) = Len(ret.arg.seq)

\* C15: the same in a bridge with Pa <= Pt, without the index n = Pa when
\* Pt = Pa (Chn is zero there and Vhn = Cp / Chn raises): one row per entry,
\* in order; the sentinel rows hold "SC" in Vcu and Iu, the other rows their
\* numbers.
C15_SentinelSweep ==
    (/\ pc = "swept" /\ ret.op = "calcular" /\ model.cls = "T06"
     /\ ret.G \in {0, 1} /\ ret.arg.given /\ model.Pa <= model.Pt
     /\ \A i \in 1..Len(ret.arg.seq) :
            \/ ret.arg.seq[i] = SU
            \/ /\ T06_InRange(model, ret.arg.seq[i])
               /\ ~(ret.arg.seq[i] = model.Pa /\ model.Pt = model.Pa))
        => /\ ret.exc = "none"
           /\ Len(model.df) = Len(ret.arg.seq)
           /\ \A i \in 1..Len(model.df) :
                  /\ model.df[i].n = ret.arg.seq[i]
                  /\ IF ret.arg.seq[i] = SU
                     THEN model.df[i].Vcu = SC /\ model.df[i].Iu = SC
                     ELSE /\ model.df[i].Vcu
                                 = Round6(T06_Chain(model, ret.G,
                                                    ret.arg.seq[i]).Vcu)
                          /\ model.df[i].Iu = model.df[i].Vcu

\* A sweep of 0..Pa-1 followed by the sentinel has returned its Pa + 1 rows.
C15_Witness ==
    /\ pc = "swept" /\ ret.op = "calcular" /\ model.cls = "T06"
    /\ ret.exc = "none" /\ model.Pa >= 2
    /\ ret.arg = SeqArg(Range(0, model.Pa) \o <<SU>>)
    /\ Len(model.df) = model.Pa + 1
    /\ model.df[model.Pa + 1].Vcu = SC

\* The indices a completed call has swept: the sequence given, or the default
\* domain of the class.
SweptIndices ==
    IF ret.arg.given THEN ret.arg.seq
    ELSE CASE model.cls = "T07"  -> T07_DefaultDomain(model)
           [] model.cls = "T07y" -> T07y_DefaultDomain(model)
           [] model.cls = "T03"  -> T03_DefaultDomain(model)
           [] model.cls = "T02"  -> T02_DefaultDomain(model)
           [] model.cls = "T08"  -> T08_DefaultDomain(model)

\* The instance as its constructor left it: the parameters, and no table.
Fresh(m) == [m EXCEPT !.df = <<>>]

DoubleWyeClasses == {"T07", "T03"}

\* C23: in every table a double-wye model (internal or external fuses) built
\* with Pt = Pa has computed, for G = 0 and G = 1 and every fault index swept,
\* the neutral current In is 0 in every row.
C23_NoNeutralCurrentWhenPtIsPa ==
    (pc \in {"swept", "swept_again"} /\ ret.op = "calcular" /\ ret.exc = "none"
     /\ model.cls \in DoubleWyeClasses /\ model.Pt = model.Pa)
        => \A i \in 1..Len(model.df) : model.df[i].In = 0

\* An ungrounded double-wye bank with Pt = Pa has been swept and a row has a
\* neutral shift Vng other than 0 next to In = 0.
C23_Witness ==
    /\ pc = "swept" /\ ret.op = "calcular" /\ ret.exc = "none"
    /\ model.cls = "T07" /\ model.Pt = model.Pa /\ ret.G = 1
    /\ \E i \in 1..Len(model.df) :
           model.df[i].Vng # 0 /\ model.df[i].In = 0

\* C25: every call of calcular on a single-wye internal-fuse model (Pt = Pa)
\* ends as the same call on a double-wye internal-fuse model built with the
\* same parameters: the same exception or the same table, column by column,
\* In = 0 included.
C25_SingleWyeIsDoubleWyeWithPtPa ==
    (pc \in {"swept", "swept_again"} /\ ret.op = "calcular"
     /\ model.cls = "T07y")
        => LET yy == [Fresh(model) EXCEPT !.cls = "T07"]
               r  == T07_calcular(yy, ret.G, ret.arg)
           IN  /\ T07_validate(yy.S, yy.Pt, yy.Pa, yy.P, yy.N, yy.Su)
               /\ r.exc = ret.exc
               /\ ret.exc = "none" => r.df = model.df

\* An ungrounded single-wye bank with Pt = Pa >= 2 has been swept over its
\* default domain and has a row with a neutral shift.
C25_Witness ==
    /\ pc = "swept" /\ ret.op = "calcular" /\ ret.exc = "none"
    /\ model.cls = "T07y" /\ model.Pt >= 2 /\ ret.G = 1 /\ ~ret.arg.given
    /\ Len(model.df) >= 2
    /\ \E i \in 1..Len(model.df) : model.df[i].Vng # 0 /\ model.df[i].In = 0

WyeClasses == {"T07", "T07y", "T03", "T02"}

\* The topology key of a wye class and the nameplate its instance was built
\* from (the single-wye external model has one wye: Pa = Pt).
WyeTopology(cls) ==
    CASE cls = "T07"  -> "yy_internal_fuses"
      [] cls = "T07y" -> "y_internal_fuses"
      [] cls = "T03"  -> "yy_external_fuses"
      [] cls = "T02"  -> "y_external_fuses"

WyeNameplate(m) ==
    [S |-> IntVal(m.S), St |-> Absent, Pt |-> IntVal(m.Pt),
     Pa |-> IntVal(IF m.cls = "T02" THEN m.Pt ELSE m.Pa),
     P |-> IF m.cls \in {"T07", "T07y"} THEN IntVal(m.P) ELSE Absent]

\* The last fault index of the domain of a wye model.
WyeLastIndex(m) ==
    CASE m.cls \in {"T07", "T07y"} -> m.N
      [] m.cls = "T03" -> m.Pa
      [] m.cls = "T02" -> m.Pt

\* A wye model with parameters the validator accepts and Pa >= 1 has
\* completed a sweep, with G in {0, 1}, of indices of its domain.
WyeSweepInDomain ==
    /\ SweepDone /\ model.cls \in WyeClasses /\ ret.G \in GVals
    /\ validate_nominal_data(WyeTopology(model.cls), WyeNameplate(model))
           = Returned
    /\ WyeNameplate(model).Pa.v >= 1
    /\ \A i \in 1..Len(SweptIndices) :
           SweptIndices[i] \in 0..WyeLastIndex(model)

\* C29: in every such sweep every row has Cp <= 1, Vng >= 0, Vln >= 1 and
\* Vcu >= 1.
C29_RowsWithinNominal ==
    WyeSweepInDomain
        => \A i \in 1..Len(model.df) :
               /\ model.df[i].Cp <= Cell1
               /\ model.df[i].Vng >= 0
               /\ model.df[i].Vln >= Cell1
               /\ model.df[i].Vcu >= Cell1

\* An ungrounded double-wye internal-fuse bank swept at a failed element:
\* the phase capacitance is below nominal, the neutral has shifted and the
\* surviving units are above nominal voltage.
C29_Witness ==
    /\ WyeSweepInDomain /\ model.cls = "T07" /\ ret.G = 1
    /\ \E i \in 1..Len(model.df) :
           /\ model.df[i].f >= 1
           /\ model.df[i].Cp < Cell1
           /\ model.df[i].Vng > 0
           /\ model.df[i].Vcu > Cell1

-----------------------------------------------------------------------------
(* Properties of sequences of calls on one instance (checked under
   SpecCalls) *)

\* C21: a call of calcular that raises (index out of range, zero denominator,
\* G outside {0, 1}) leaves the table stored in df exactly as it was before
\* the call; df never holds the rows that preceded the failing index.
C21_FailedSweepKeepsTable ==
    [][(ret'.op = "calcular" /\ ret'.exc # "none") => model'.df = model.df]_vars

\* A second sweep of several indices raised after an earlier sweep had stored
\* its rows, and those rows are still the table.
C21_Witness ==
    /\ pc = "swept_again" /\ ret.op = "calcular" /\ ret.exc # "none"
    /\ ret.arg.given /\ Len(ret.arg.seq) >= 2
    /\ Len(model.df) >= 1

\* The row of index i computed alone from the constructor parameters and G.
RowOfIndex(m, G, i) ==
    CASE m.cls = "T07"  -> T07_Row(T07_Chain(Fresh(m), G, i))
      [] m.cls = "T07y" -> T07y_Row(T07y_Chain(Fresh(m), G, i))
      [] m.cls = "T03"  -> T03_Row(T03_Chain(Fresh(m), G, i))
      [] m.cls = "T02"  -> T02_Row(T02_Chain(Fresh(m), G, i))
      [] m.cls = "T06"  -> T06_Row(T06_Chain(Fresh(m), G, i))
      [] m.cls = "T08"  -> T08_Row(T08_Chain(Fresh(m), G, i))

\* C22: after any completed call of calcular, first or second on the
\* instance, the table holds one row per swept index and each row is the one
\* that the constructor parameters, G and that index give on their own,
\* whatever was called before, whatever else is in the sweep and wherever the
\* index stands.
C22_RowsDependOnIndexOnly ==
    (pc \in {"swept", "swept_again"} /\ ret.op = "calcular" /\ ret.exc = "none")
        => /\ Len(model.df) = Len(SweptIndices)
           /\ \A i \in 1..Len(model.df) :
                  model.df[i] = RowOfIndex(model, ret.G, SweptIndices[i])

\* A second call on an instance has completed a sweep of several indices.
C22_Witness ==
    /\ pc = "swept_again" /\ ret.op = "calcular" /\ ret.exc = "none"
    /\ ret.G = 1 /\ Len(model.df) >= 2
    /\ model.df[2] = RowOfIndex(model, 1, SweptIndices[2])

ExportOps == {"exportar", "salvar_excel"}

\* C28: on every model, exportar and salvar_excel raise ValueError exactly
\* when no earlier calcular on the instance completed with at least one row,
\* and otherwise serialise the table of the most recent completed calcular.
\* Stepwise: a call on an instance that holds rows serialises them, a call
\* before any calcular raises ValueError, no call ends otherwise, and once a
\* calcular has stored rows a later completed calcular leaves a table that
\* both methods serialise.
C28_ExportNeedsCompletedSweep ==
    [][/\ ret'.op \in ExportOps
          => /\ ret'.exc \in {"none", "ValueError"}
             /\ pc = "built" => ret'.exc = "ValueError"
             /\ model.df # <<>>
                    => /\ ret'.exc = "none"
                       /\ exportado' = <<[to |-> ret'.op, df |-> model.df]>>
       /\ (ret'.op = "calcular" /\ ret'.exc = "none" /\ model.df # <<>>)
          => /\ exportar(model').exc = "none"
             /\ salvar_excel(model').exc = "none"]_vars

-----------------------------------------------------------------------------
(* Properties of the validators (checked under SpecValid) *)

HBridgeTopologies == {"h_bridge_internal_fuses", "h_bridge_external_fuses"}

InternalFuseTopologies ==
    {"y_internal_fuses", "yy_internal_fuses", "h_bridge_internal_fuses"}

ValidationDone == pc = "validated"

Elems(seq) == {seq[i] : i \in 1..Len(seq)}

AllInt(data, keys) == \A key \in keys : IsInt(data[key])

\* The messages by which a validator rejects on divisibility grounds.
DivisibilityErrors ==
    {"Combinacao invalida: Pa deve ser multiplo de P.",
     "Invalid combination: Pa must be a multiple of P."}

\* The result is a rejection: a ValidationResult with is_valid = false and
\* at least one error.
Rejected(r) == r.exc = "none" /\ ~r.is_valid /\ r.errors # <<>>

\* C6 as stated: for each of the three internal-fuse topologies and integer
\* parameters, the validator rejects when Pa mod P # 0, and reports no
\* divisibility error when Pa mod P = 0.
C6_DivisibilityAllInternal ==
    (/\ ValidationDone
     /\ topologia \in InternalFuseTopologies
     /\ AllInt(dados, {"S", "St", "Pt", "Pa", "P"})
     /\ dados.P.v >= 1) =>
        /\ (dados.Pa.v % dados.P.v) # 0 => Rejected(ret)
        /\ (dados.Pa.v % dados.P.v) = 0 =>
               Elems(ret.errors) \cap DivisibilityErrors = {}

\* C6 amended: for y_internal_fuses and yy_internal_fuses, a mapping with
\* integer Pa and P >= 1 and Pa mod P # 0 is never accepted, and is rejected
\* with an error when S, Pt are integers too; with Pa mod P = 0 no
\* divisibility error is reported.  For h_bridge_internal_fuses no
\* divisibility error is ever reported.
C6_Divisibility ==
    /\ (/\ ValidationDone
        /\ topologia \in {"y_internal_fuses", "yy_internal_fuses"}
        /\ AllInt(dados, {"Pa", "P"})
        /\ dados.P.v >= 1) =>
           /\ (dados.Pa.v % dados.P.v) # 0 =>
                  /\ ~(ret.exc = "none" /\ ret.is_valid)
                  /\ AllInt(dados, {"S", "Pt"}) => Rejected(ret)
           /\ (dados.Pa.v % dados.P.v) = 0 =>
                  Elems(ret.errors) \cap DivisibilityErrors = {}
    /\ (ValidationDone /\ topologia = "h_bridge_internal_fuses") =>
           Elems(ret.errors) \cap DivisibilityErrors = {}

\* A double-wye internal-fuse nameplate rejected for divisibility alone.
C6_Witness ==
    /\ ValidationDone /\ ret.op = "validate_inputs"
    /\ topologia = "yy_internal_fuses"
    /\ AllInt(dados, {"S", "Pt", "Pa", "P"})
    /\ dados.P.v = 2 /\ dados.Pa.v = 3
    /\ ret.exc = "none" /\ ~ret.is_valid
    /\ ret.errors = <<"Combinacao invalida: Pa deve ser multiplo de P.">>

\* The hard rules of the H-bridge topologies.
HBridgeRules(S, St, Pt, Pa, P) ==
    /\ S >= 2
    /\ 1 <= St /\ St <= S - 1
    /\ 1 <= Pa /\ Pa <= Pt - 1
    /\ P >= 1
    /\ Pa >= P
    /\ Pt >= 2 * P

\* The rule an error message names is violated by the parameters.
NamesViolatedRule(msg, S, St, Pt, Pa, P) ==
    CASE msg = "S must be >= 2." -> S < 2
      [] msg = "St must satisfy 1 <= St <= S-1." -> St < 1 \/ St > S - 1
      [] msg = "Pa must satisfy 1 <= Pa <= Pt-1." -> Pa < 1 \/ Pa > Pt - 1
      [] msg = "Pa must be >= P." -> Pa < P
      [] msg = "Pt must be >= 2*P." -> Pt < 2 * P
      [] msg = MustBeAtLeast1.S -> S < 1
      [] msg = MustBeAtLeast1.St -> St < 1
      [] msg = MustBeAtLeast1.Pt -> Pt < 1
      [] msg = MustBeAtLeast1.Pa -> Pa < 1
      [] msg = MustBeAtLeast1.P -> P < 1
      [] OTHER -> FALSE

\* C7: for an H-bridge topology and five supplied integers, validation
\* returns is_valid = true exactly when all hard rules hold, and otherwise
\* is_valid = false with at least one error, each error naming a rule the
\* parameters violate.
C7_HBridgeValidity ==
    (/\ ValidationDone
     /\ topologia \in HBridgeTopologies
     /\ AllInt(dados, {"S", "St", "Pt", "Pa", "P"})) =>
        LET S == dados.S.v
            St == dados.St.v
            Pt == dados.Pt.v
            Pa == dados.Pa.v
            P == dados.P.v
        IN  /\ ret.exc = "none"
            /\ ret.is_valid <=> HBridgeRules(S, St, Pt, Pa, P)
            /\ ~ret.is_valid =>
                   /\ ret.errors # <<>>
                   /\ \A msg \in Elems(ret.errors) :
                          NamesViolatedRule(msg, S, St, Pt, Pa, P)

\* An H-bridge nameplate with Pa = Pt, rejected by the rule on Pa alone.
C7_Witness ==
    /\ ValidationDone /\ ret.op = "validate_inputs"
    /\ topologia = "h_bridge_external_fuses"
    /\ AllInt(dados, {"S", "St", "Pt", "Pa", "P"})
    /\ dados.Pa.v = dados.Pt.v
    /\ ~ret.is_valid
    /\ ret.errors = <<"Pa must satisfy 1 <= Pa <= Pt-1.">>

\* C8: for an H-bridge nameplate satisfying every hard rule the result is
\* valid, carries the warning on Pt // P exactly when Pt // P is odd and the
\* warning on Pa = P exactly when Pa = P, and nothing else; and no result
\* with is_valid = false carries a warning.
C8_Warnings ==
    /\ (/\ ValidationDone
        /\ topologia \in HBridgeTopologies
        /\ AllInt(dados, {"S", "St", "Pt", "Pa", "P"})
        /\ HBridgeRules(dados.S.v, dados.St.v, dados.Pt.v, dados.Pa.v,
                        dados.P.v)) =>
           /\ ret.exc = "none" /\ ret.is_valid /\ ret.errors = <<>>
           /\ ret.warnings =
                  Cond(((dados.Pt.v \div dados.P.v) % 2) = 1, PtDivPOdd)
                  \o Cond(dados.Pa.v = dados.P.v, PaEqualsP)
    /\ (ValidationDone /\ ret.exc = "none" /\ ~ret.is_valid) =>
           ret.warnings = <<>>

\* A valid H-bridge nameplate that draws both warnings.
C8_Witness ==
    /\ ValidationDone /\ ret.op = "validar"
    /\ topologia = "h_bridge_internal_fuses"
    /\ ret.exc = "none" /\ ret.is_valid
    /\ ret.warnings = <<PtDivPOdd, PaEqualsP>>

\* C9: validate_inputs returns a ValidationResult and never raises, for
\* every topology key and every mapping, with keys missing or values that
\* are not integers.
C9_ValidateInputsNeverRaises ==
    (ValidationDone /\ ret.op = "validate_inputs") => ret.exc = "none"

\* The keys read by the validators that the input form of a topology puts in
\* the mapping it returns.
SuppliedKeys(topology) ==
    CASE topology \in {"y_internal_fuses", "yy_internal_fuses"} ->
             {"S", "Pt", "Pa", "P"}
      [] topology = "yy_external_fuses" -> {"S", "Pt", "Pa"}
      [] topology = "h_bridge_internal_fuses" -> {"S", "St", "Pt", "Pa", "P"}
      [] topology = "h_bridge_external_fuses" -> {"S", "St", "Pt", "Pa"}

\* C27: for each registered topology and every mapping that carries the keys
\* its form supplies, with integer values, validate_inputs and
\* Validacao.validar both return and give the same is_valid.
C27_ValidatorsAgree ==
    (ValidationDone /\ topologia \in RegisteredTopologies
     /\ AllInt(dados, SuppliedKeys(topologia))
     /\ \A key \in DOMAIN dados : dados[key] = Absent \/ IsInt(dados[key]))
        => LET a == validate_inputs(topologia, dados)
               b == Validacao_validar(topologia, dados)
           IN  /\ a.exc = "none" /\ b.exc = "none"
               /\ a.is_valid = b.is_valid

-----------------------------------------------------------------------------
(* Property of validated sweeps (checked under SpecSweep) *)

\* C14: the sweep of a nameplate that validate_inputs accepts completes:
\* no zero denominator is met, the table has one row per index of the
\* domain swept, and Vcu is a number in every row.
C14_ValidatedSweepCompletes ==
    pc = "validated_swept" =>
        /\ ret.exc = "none"
        /\ model.cls # "none"
        /\ Len(model.df)
               = Len(IF model.cls = "T06" THEN Range(0, model.Pa)
                     ELSE IF model.cls = "T03" THEN T03_DefaultDomain(model)
                     ELSE IF model.cls = "T02" THEN T02_DefaultDomain(model)
                     ELSE Range(0, model.N))
        /\ \A i \in 1..Len(model.df) : model.df[i].Vcu \in Int

\* C26: a nameplate that validate_inputs has accepted for its topology is
\* accepted by the constructor of that topology's model class: the instance
\* exists when the sweep starts.
C26_ValidatedIsConstructible ==
    pc = "validated_swept" => model # NoModel

-----------------------------------------------------------------------------
(* Properties of the application pipeline (checked under Spec) *)

\* The hard rules of a topology on the nameplate the form built; the rules
\* on P apply where the form supplies P.
NameplateRules(topology, data) ==
    LET S == data.S.v
        St == data.St.v
        Pt == data.Pt.v
        Pa == data.Pa.v
        P == data.P.v
    IN  /\ S >= 1 /\ Pt >= 1 /\ 0 <= Pa /\ Pa <= Pt
        /\ topology = "y_internal_fuses" =>
               Pa = Pt /\ P >= 1 /\ (Pa % P) = 0
        /\ topology \in {"yy_internal_fuses", "yy_external_fuses"} =>
               Pt - Pa >= 1
        /\ topology = "yy_internal_fuses" => P >= 1 /\ (Pa % P) = 0
        /\ topology \in HBridgeTopologies =>
               /\ S >= 2
               /\ 1 <= St /\ St <= S - 1
               /\ 1 <= Pa /\ Pa <= Pt - 1
               /\ IsInt(data.P) => P >= 1 /\ Pa >= P /\ Pt >= 2 * P

\* C1: in the pipeline no model sweep is started for a nameplate that
\* violates a hard rule of its topology: whenever compute has started a
\* sweep, the nameplate satisfies the rules.
C1_NoSweepOnInvalidNameplate ==
    (pc \in {"computed", "compute_raised"} /\ ret.op = "compute" /\ ret.sweep)
        => NameplateRules(topologia, dados)

\* C2: the critical row is a fault index whose rated-voltage ratio Vcu2 is
\* maximal among the rows with Vcu2 <= 1.10 (11000 ten-thousandths), and
\* none when no row has Vcu2 <= 1.10.
C2_CriticalRowByRatedVoltage ==
    (pc = "computed" /\ ret.op = "compute") =>
        LET rows == {i \in 1..Len(ret.df_real) :
                        ret.df_real[i].Vcu2 <= 11000}
            line == exportado[1].line_max_vcu
        IN  IF rows = {} THEN ~line.given
            ELSE /\ line.given
                 /\ \E i \in rows :
                        /\ \A j \in rows :
                               ret.df_real[j].Vcu2 <= ret.df_real[i].Vcu2
                        /\ RowIndex(model.cls, model.df[i]) = line.v

\* C11: when a compute entry point was handed an explicit index sequence
\* and completed, the per-unit table it returns has exactly one row per
\* supplied index, in the supplied order.
C11_RowsFollowSuppliedSequence ==
    (pc = "computed" /\ ret.f_values.given) =>
        /\ Len(ret.df_ieee) = Len(ret.f_values.seq)
        /\ \A i \in 1..Len(ret.df_ieee) :
               RowIndex(model.cls, ret.df_ieee[i]) = ret.f_values.seq[i]

\* C16: what a compute entry point returns holds the critical-row index.
C16_CriticalRowReturned ==
    pc = "computed" => "line_max_vcu" \in DOMAIN ret

\* C18: the per-unit table returned is in ascending fault-index order; the
\* real-unit table and the table of each exporter have its number of rows;
\* row i of each is the conversion of per-unit row i, and the label i handed
\* to each exporter is the fault index of per-unit row i.
C18_AscendingOrderPreserved ==
    pc = "computed" =>
        LET df == ret.df_ieee
            conv(i) == converter_unidades(<<df[i]>>, dados.V_ll.v,
                                          dados.V_rated.v)[1]
        IN  /\ \A i, j \in 1..Len(df) :
                   i < j => RowIndex(model.cls, df[i])
                                < RowIndex(model.cls, df[j])
            /\ Len(ret.df_real) = Len(df)
            /\ \A i \in 1..Len(df) : ret.df_real[i] = conv(i)
            /\ \A k \in 1..Len(exportado) :
                   /\ Len(exportado[k].df_real) = Len(df)
                   /\ Len(exportado[k].f_values) = Len(df)
                   /\ \A i \in 1..Len(df) :
                          /\ exportado[k].df_real[i] = conv(i)
                          /\ exportado[k].f_values[i]
                                 = RowIndex(model.cls, df[i])

\* C24: in the LaTeX export of a computed table the row whose fault index is
\* line_max_vcu is emphasised, the rows at the one and two positions above
\* it, where they exist, are emphasised in another colour, and no other row
\* is; without a critical index no row is emphasised.
C24_EmphasisRows ==
    pc = "computed" =>
        LET e      == exportado[1]
            rows   == 1..Len(e.f_values)
            hits   == {i \in rows : e.f_values[i] = e.line_max_vcu.v}
            target == CHOOSE i \in hits : \A j \in hits : i <= j
        IN  /\ Len(e.colors) = Len(e.f_values)
            /\ IF ~e.line_max_vcu.given
               THEN \A i \in rows : e.colors[i] = "none"
               ELSE /\ e.colors[target] # "none"
                    /\ \A i \in rows \cap {target - 1, target - 2} :
                           e.colors[i] \notin {"none", e.colors[target]}
                    /\ \A i \in rows \ {target, target - 1, target - 2} :
                           e.colors[i] = "none"

\* A run of TopologyConfig.compute has reached the exporters.
ComputeReachedExport ==
    /\ pc \in {"computed", "compute_raised"}
    /\ ret.op = "compute" /\ exportado # <<>>

\* C30: in every run of TopologyConfig.compute that reaches the exporters, no
\* exporter raises, and the labels each receives are the index column (f or
\* n) of the per-unit table, one label per row of the table it is given.
C30_LabelsAreIndexColumn ==
    ComputeReachedExport =>
        \A k \in 1..Len(exportado) :
            /\ exportado[k].exc = "none"
            /\ Len(exportado[k].f_values) = Len(model.df)
            /\ Len(exportado[k].f_values) = Len(exportado[k].df_real)
            /\ \A i \in 1..Len(model.df) :
                   exportado[k].f_values[i] = RowIndex(model.cls, model.df[i])

\* An internal-fuse topology whose table has N >= 2 rows while the registry
\* passed the N - 1 labels 0..N-2: both exporters ran on N labels.
C30_Witness ==
    /\ ComputeReachedExport /\ pc = "computed"
    /\ topologia \in InternalFuseTopologies
    /\ ret.f_values.given
    /\ Len(model.df) >= 2
    /\ Len(ret.f_values.seq) = Len(model.df) - 1
    /\ Len(exportado) = 2
    /\ Len(exportado[1].f_values) = Len(model.df)

-----------------------------------------------------------------------------
(* Properties of ElectricalUtils (checked under SpecConv) *)

\* C17: every column of the input table that converter_unidades does not
\* recognise is a column of the output table, with the same value in every
\* row (a cell of the output counts ten-thousandths, of the input
\* millionths).
C17_UnknownColumnsPassThrough ==
    (pc = "converted" /\ ret.op = "converter_unidades") =>
        /\ Len(ret.out) = Len(ret.df)
        /\ \A i \in 1..Len(ret.df) :
           \A c \in DOMAIN ret.df[i] \ DOMAIN ConvertedColumns :
               /\ c \in DOMAIN ret.out[i]
               /\ ret.out[i][c] * Hundred = ret.df[i][c]

\* C19: converting a table whose recognised columns are all 1.0 gives the
\* Basis quantities themselves: C_phase in the converted capacitances,
\* V_phase in the converted voltages, I_bank in the converted currents.
C19_AllOnesGiveBasis ==
    (/\ pc = "converted" /\ ret.op = "converter_unidades"
     /\ \A i \in 1..Len(ret.df) :
        \A c \in DOMAIN ret.df[i] \cap DOMAIN ConvertedColumns :
            ret.df[i][c] = Cell1)
        => \A i \in 1..Len(ret.out) : \A c \in DOMAIN ret.out[i] :
               /\ c \in {"Cp_uF", "Chn_uF"}
                      => Rat(ret.out[i][c], TenThousandth) = ret.bases.C_phase
               /\ c \in {"V_ng_V", "Vhn_V"}
                      => Rat(ret.out[i][c], TenThousandth) = ret.bases.V_phase
               /\ c \in {"In_A", "Ig_A", "Ih_A"}
                      => Rat(ret.out[i][c], TenThousandth) = ret.bases.I_bank

\* C20: calcular_nominais_celula fails and returns no Basis when one of
\* V_ll, Q_total, f, S, Pt is zero or negative, and returns a Basis when
\* all five are positive.
C20_InvalidNameplateRejected ==
    (pc \in {"bases", "bases_raised"} /\ ret.op = "calcular_nominais_celula")
        => IF \E k \in {"V_ll", "Q_total", "f", "S", "Pt"} : dados[k] <= 0
           THEN ret.exc # "none" /\ ret.bases = <<>>
           ELSE ret.exc = "none" /\ ret.bases # <<>>

====
